---- MODULE Spec2Model ----
(***************************************************************************)
(* Model of the ENR enrichment pipeline: llm_enricher.py (batch model      *)
(* enrichment and scoring), pdf_parser.py (table extraction, cell parsing, *)
(* firm cleaning, table normalisation), uitility.py (location derivation), *)
(* duckduckgo_enricher.py (search enrichment), main.py (the pipeline) and  *)
(* llm_scorer.py (resumable batch scoring into an output file).            *)
(*                                                                         *)
(* A Python str is a sequence of one-character strings.  A JSON value is a *)
(* record [t, s, n, e]: t the type, s the characters of a string (or the  *)
(* element names of a list), n the number.  A dict is a function from its  *)
(* keys to JSON values; an absent key is a key outside its DOMAIN.  A       *)
(* number is n * 10^(-e), so that a float with a fractional part is exact. *)
(***************************************************************************)
EXTENDS Integers, Sequences, FiniteSets, TLC

VARIABLES
    pc,          \* position of the function under execution
    records,     \* the in-memory record list, mutated in place
    pre,         \* the record list as it was when the function was called
    client,      \* TRUE iff _safe_client() yields a model client
    batch_size,  \* the batch_size argument
    start,       \* loop variable of the chunk loop (0-based, as in the code)
    resp,        \* what the model backend answered to the last chunk call
    value,       \* the argument of _parse_number
    result,      \* what _parse_number returned
    df,          \* the DataFrame given to normalize_enr_table
    normalized,  \* the DataFrame normalize_enr_table returned
    idx,         \* loop variable of the record loop of the search stage
    fetches,     \* the calls of _fetch_html so far: record, URL query, answer
    tables,      \* the tables pdfplumber finds on the pages of the PDF
    trace,       \* what main has done so far: stages run, snapshots written
    calls,       \* the calls of the model backend so far, in order
    output,      \* the content of the output file of llm_scorer.py
    existing_results,  \* the list score_in_batches appends to
    count        \* the count argument of score_in_batches

vars == <<pc, records, pre, client, batch_size, start, resp, value, result, df,
          normalized, idx, fetches, tables, trace, calls, output, existing_results,
          count>>

\* the state of llm_scorer.py
scorer == <<output, existing_results, count>>

\* the state of the search stage, the PDF, main and llm_scorer.py, which the
\* functions of the other stages leave alone
outside == <<idx, fetches, tables, trace, output, existing_results, count>>

----------------------------------------------------------------------------
(* Bounds of the model *)

MaxRecords == 2
MaxBatch == 2
MaxCellLen == 3
MaxRows == 2

----------------------------------------------------------------------------
(* JSON values *)

Null == [t |-> "null", s |-> <<>>, n |-> 0, e |-> 0]
Str(chars) == [t |-> "str", s |-> chars, n |-> 0, e |-> 0]
Num(k) == [t |-> "num", s |-> <<>>, n |-> k, e |-> 0]
List(elems) == [t |-> "list", s |-> elems, n |-> 0, e |-> 0]
\* the float m / 10^k, and float("nan")
Float(m, k) == [t |-> "num", s |-> <<>>, n |-> m, e |-> k]
NaN == [t |-> "nan", s |-> <<>>, n |-> 0, e |-> 0]

EmptyDict == [k \in {} |-> Null]

\* dict.get(k): the value, or None for an absent key
Get(d, k) == IF k \in DOMAIN d THEN d[k] ELSE Null

\* dict.update(other)
Update(d, other) ==
    [k \in (DOMAIN d) \cup (DOMAIN other) |->
        IF k \in DOMAIN other THEN other[k] ELSE d[k]]

\* Python truthiness of a JSON value (the operand of `or`)
Truthy(v) ==
    CASE v.t = "null" -> FALSE
      [] v.t = "str"  -> v.s # <<>>
      [] v.t = "list" -> v.s # <<>>
      [] v.t = "num"  -> v.n # 0
      [] OTHER        -> TRUE

----------------------------------------------------------------------------
(* Strings *)

UpperAZ == <<"A","B","C","D","E","F","G","H","I","J","K","L","M",
             "N","O","P","Q","R","S","T","U","V","W","X","Y","Z">>
LowerAZ == <<"a","b","c","d","e","f","g","h","i","j","k","l","m",
             "n","o","p","q","r","s","t","u","v","w","x","y","z">>

LowerChar(c) ==
    IF \E i \in 1..26 : UpperAZ[i] = c
    THEN LowerAZ[CHOOSE i \in 1..26 : UpperAZ[i] = c]
    ELSE c

\* str.lower()
Lower(str) == [i \in 1..Len(str) |-> LowerChar(str[i])]

\* `sub in str`
Contains(str, sub) ==
    \E i \in 1..(Len(str) - Len(sub) + 1) :
        SubSeq(str, i, i + Len(sub) - 1) = sub

----------------------------------------------------------------------------
(* llm_enricher.py: TARGET_FIELDS and score_record *)

TARGET_FIELDS ==
    <<"industry", "founded_year", "headquarters", "country", "website",
      "employee_count", "annual_turnover", "description",
      "operating_regions", "contact_name", "contact_designation",
      "contact_email", "contact_phone", "linkedin_url", "related_contacts">>

TargetSet == {TARGET_FIELDS[i] : i \in 1..Len(TARGET_FIELDS)}

ScoreKeys ==
    {"water_focus_score", "infra_focus_score", "lead_score",
     "data_completeness_score"}

\* {k: rec.get(k) for k in TARGET_FIELDS}
Enriched(rec) == [k \in TargetSet |-> Get(rec, k)]

water_keywords ==
    << <<"w","a","t","e","r">>,
       <<"w","a","s","t","e","w","a","t","e","r">>,
       <<"w","a","t","e","r"," ","s","u","p","p","l","y">>,
       <<"s","e","w","e","r">> >>

infra_keywords ==
    << <<"i","n","f","r","a","s","t","r","u","c","t","u","r","e">>,
       <<"t","r","a","n","s","p","o","r","t","a","t","i","o","n">>,
       <<"p","o","w","e","r">>,
       <<"i","n","d","u","s","t","r","i","a","l">> >>

\* round(num / den): Python 3 rounds a tie to the even integer
Round(num, den) ==
    LET q == num \div den
        r == num % den
    IN  IF 2 * r < den THEN q
        ELSE IF 2 * r > den THEN q + 1
        ELSE IF q % 2 = 0 THEN q ELSE q + 1

Min(a, b) == IF a <= b THEN a ELSE b
Max(a, b) == IF a >= b THEN a ELSE b

\* (mutant) a field counts as filled when its value is truthy
FilledTruthy(v) == Truthy(v)

\* (mutant) `in` for `not in`: the unfilled fields are counted
FilledInverted(v) == v.t = "null" \/ (v.t \in {"str", "list"} /\ v.s = <<>>)

\* enriched.get(k) not in (None, "", [])
Filled(v) == ~(v.t = "null" \/ (v.t = "str" /\ v.s = <<>>) \/ (v.t = "list" /\ v.s = <<>>))

FilledCount(enriched) == Cardinality({k \in TargetSet : Filled(Get(enriched, k))})

\* (enriched.get(k) or ""): the operand of the string concatenation
OrEmpty(v) == IF Truthy(v) THEN v ELSE Str(<<>>)

\* str + " " + str raises TypeError unless both operands are strings
score_record_raises(enriched) ==
    \/ OrEmpty(Get(enriched, "description")).t # "str"
    \/ OrEmpty(Get(enriched, "industry")).t # "str"

\* (mutant) the text is not lower-cased
ScoreTextCaseSensitive(enriched) ==
    OrEmpty(Get(enriched, "description")).s \o <<" ">>
        \o OrEmpty(Get(enriched, "industry")).s

ScoreText(enriched) ==
    Lower(OrEmpty(Get(enriched, "description")).s \o <<" ">>
          \o OrEmpty(Get(enriched, "industry")).s)

KeywordHits(keywords, text) ==
    Cardinality({i \in 1..Len(keywords) : Contains(text, keywords[i])})

\* IEEE 754 doubles below 128, as exact multiples of 2^-55 held in three
\* limbs of 21 bits, least significant first
LimbBase == 2^21

\* the double 0.2 is Mantissa * 2^-55 and the double 0.4 is Mantissa * 2^-54
\* (float.hex: 0x1.999999999999ap-3 and 0x1.999999999999ap-2)
Mantissa == <<1677722, 838860, 1638>>

Carried(x0, x1, x2) ==
    LET y1 == x1 + (x0 \div LimbBase)
    IN  <<x0 % LimbBase, y1 % LimbBase, x2 + (y1 \div LimbBase)>>

RECURSIVE BitLen(_)
BitLen(k) == IF k = 0 THEN 0 ELSE 1 + BitLen(k \div 2)

BigBitLen(a) ==
    IF a[3] > 0 THEN 42 + BitLen(a[3])
    ELSE IF a[2] > 0 THEN 21 + BitLen(a[2])
    ELSE BitLen(a[1])

\* the nearest double of an exact value: 53 significant bits, a tie to the
\* even mantissa (at most 10 bits are dropped: the values are below 2^63)
RoundToDouble(a) ==
    LET d == BigBitLen(a) - 53
    IN  IF d <= 0 THEN a
        ELSE LET unit == 2^d
                 rem == a[1] % unit
                 odd == (a[1] \div unit) % 2 = 1
             IN  IF 2 * rem > unit \/ (2 * rem = unit /\ odd)
                 THEN Carried(a[1] - rem + unit, a[2], a[3])
                 ELSE <<a[1] - rem, a[2], a[3]>>

\* float * int and float + float, each rounded once
DoubleTimes(a, k) == RoundToDouble(Carried(a[1] * k, a[2] * k, a[3] * k))
DoublePlus(a, b) == RoundToDouble(Carried(a[1] + b[1], a[2] + b[2], a[3] + b[3]))

\* int(x) of a non-negative double: the multiples of 2^55 it holds
DoubleToInt(a) == a[3] \div 2^13

\* (mutant) the signals are added without their weights
LeadScoreUnweighted(w, i, c) == w + i + c

\* (mutant) round() for int()
LeadScoreRounded(w, i, c) == Round(4 * w + 4 * i + 2 * c, 10)

\* int(0.4 * w + 0.4 * i + 0.2 * c), evaluated left to right in doubles
LeadScore(w, i, c) ==
    DoubleToInt(DoublePlus(DoublePlus(DoubleTimes(Mantissa, 2 * w),
                                      DoubleTimes(Mantissa, 2 * i)),
                           DoubleTimes(Mantissa, c)))

score_record(enriched) ==
    LET total == Len(TARGET_FIELDS)
        filled == FilledCount(enriched)
        data_completeness_score == Round(100 * filled, Max(1, total))
        text_lower == ScoreText(enriched)
        water_focus_score == Min(100, 25 * KeywordHits(water_keywords, text_lower))
        infra_focus_score == Min(100, 25 * KeywordHits(infra_keywords, text_lower))
        lead_score == LeadScore(water_focus_score, infra_focus_score,
                                data_completeness_score)
    IN  [k \in ScoreKeys |->
            CASE k = "water_focus_score" -> Num(water_focus_score)
              [] k = "infra_focus_score" -> Num(infra_focus_score)
              [] k = "lead_score" -> Num(lead_score)
              [] OTHER -> Num(data_completeness_score)]

----------------------------------------------------------------------------
(* Records entering enrich_batch_with_llm: the output of the search stage *)

Digit(p) == <<"1","2","3","4","5","6","7","8","9">>[p]

FirmName(p) == <<"F", Digit(p)>>

\* duckduckgo_enricher.py: the result when both fetches fail and the
\* location gives no country
DdgEmpty ==
    [k \in {"website", "headquarters", "country", "description",
            "operating_regions", "linkedin_url"} |->
        IF k = "linkedin_url" THEN List(<<>>) ELSE Null]

\* duckduckgo_enricher.py: a result with every field found
DdgFound(p) ==
    [k \in {"website", "headquarters", "country", "description",
            "operating_regions", "linkedin_url"} |->
        CASE k = "website" -> Str(<<"f", Digit(p), ".", "c", "o">>)
          [] k = "headquarters" -> Str(<<"R", "i", "o", ",", " ", "T", "X">>)
          [] k = "country" -> Str(<<"U", "S">>)
          [] k = "description" -> Str(<<"W","a","s","t","e","w","a","t","e","r">>)
          [] k = "operating_regions" -> Str(<<"G","l","o","b","a","l">>)
          [] OTHER -> List(<<"in1">>)]

\* a record after the parse, location and search stages
BaseRecord(p) ==
    [k \in {"firm", "location"} |->
        IF k = "firm" THEN Str(FirmName(p)) ELSE Null]

InputRecords(p) ==
    {Update(BaseRecord(p), DdgEmpty), Update(BaseRecord(p), DdgFound(p))}

RECURSIVE InputLists(_)
InputLists(n) ==
    IF n = 0 THEN {<<>>}
    ELSE {Append(l, r) : l \in InputLists(n - 1), r \in InputRecords(n)}

\* the lists of at most k elements of pool
RECURSIVE ListsOver(_, _)
ListsOver(pool, k) ==
    IF k = 0 THEN {<<>>}
    ELSE LET shorter == ListsOver(pool, k - 1)
         IN  shorter \cup {Append(l, r) : l \in {x \in shorter : Len(x) = k - 1},
                                          r \in pool}

----------------------------------------------------------------------------
(* What the model backend can answer to one chunk call *)

\* an item filling every target field for the record of firm p; models echo
\* the firm they answer for and may add keys of their own
ItemFor(p) ==
    [obj |-> TRUE,
     f |-> [k \in TargetSet \cup {"firm", "confidence"} |->
        CASE k = "firm" -> Str(FirmName(p))
          [] k = "confidence" -> Num(1)
          [] k = "industry" -> Str(<<"P","o","w","e","r">>)
          [] k = "founded_year" -> Num(1990 + p)
          [] k = "website" -> Str(<<"m", Digit(p), ".", "i", "o">>)
          [] k = "description" -> Str(<<"s","e","w","e","r"," ","w","a","t","e","r">>)
          [] k = "employee_count" -> Num(100 * p)
          [] k = "linkedin_url" -> List(<<"in2">>)
          [] k = "related_contacts" -> List(<<>>)
          [] k = "contact_email" -> Null
          [] OTHER -> Str(<<"x", Digit(p)>>)]]

\* an item with two keys only, one of them null
ItemPartial ==
    [obj |-> TRUE,
     f |-> [k \in {"description", "industry"} |->
        IF k = "description" THEN Null
        ELSE Str(<<"I","n","d","u","s","t","r","i","a","l">>)]]

\* an item whose description is a number
ItemNumericDescription ==
    [obj |-> TRUE, f |-> [k \in {"description"} |-> Num(5)]]

\* an item that is not a JSON object (null, a string, a number, a list)
ItemNotObject == [obj |-> FALSE, f |-> EmptyDict]

ItemPool(from, to) ==
    {ItemFor(p) : p \in from..to}
        \cup {ItemPartial, ItemNumericDescription, ItemNotObject}

RECURSIVE ItemLists(_, _)
ItemLists(pool, n) ==
    IF n <= 0 THEN {<<>>}
    ELSE {Append(l, x) : l \in ItemLists(pool, n - 1), x \in pool}

NoResponse == [kind |-> "none", items |-> <<>>, at |-> 0, n |-> 0]

\* kinds: "raise"      the call raises
\*        "notjson"    the content is not JSON text
\*        "empty"      the content is empty or None
\*        "notobject"  the content is JSON but not an object
\*        "norecords"  an object without the key "records"
\*        "notlist"    "records" is not a list
\*        "list"       "records" is the list `items`
\* at, n: the chunk the call was made for (its start and its length)
Responses(at, n) ==
    {[kind |-> kd, items |-> <<>>, at |-> at, n |-> n] :
        kd \in {"raise", "notjson", "empty", "notobject", "norecords", "notlist"}}
    \cup
    {[kind |-> "list", items |-> its, at |-> at, n |-> n] :
        its \in UNION {ItemLists(ItemPool(at + 1, at + n), m) : m \in (n - 1)..(n + 1)}}

----------------------------------------------------------------------------
(* llm_enricher.py: enrich_batch_with_llm *)


\* (mutant) every target field is set on the record, null when it has none
RECURSIVE ScoreOnlyFillingSchema(_, _, _)
ScoreOnlyFillingSchema(rs, i, to) ==
    IF i > to THEN [recs |-> rs, exc |-> FALSE]
    ELSE IF score_record_raises(Enriched(rs[i]))
         THEN [recs |-> rs, exc |-> TRUE]
         ELSE ScoreOnlyFillingSchema(
                [rs EXCEPT ![i] = Update(Update(rs[i], Enriched(rs[i])),
                                         score_record(Enriched(rs[i])))],
                i + 1, to)

\* (mutant) the new scores are added to the scores the record carries
RECURSIVE ScoreOnlyAccumulating(_, _, _)
ScoreOnlyAccumulating(rs, i, to) ==
    IF i > to THEN [recs |-> rs, exc |-> FALSE]
    ELSE IF score_record_raises(Enriched(rs[i]))
         THEN [recs |-> rs, exc |-> TRUE]
         ELSE LET scores == score_record(Enriched(rs[i]))
                  summed == [k \in ScoreKeys |->
                                Num(scores[k].n + Get(rs[i], k).n)]
              IN  ScoreOnlyAccumulating([rs EXCEPT ![i] = Update(rs[i], summed)],
                                        i + 1, to)

\* `for rec in ...: scores = score_record(...); rec.update(scores)` over the
\* records at positions i..to (1-based); exc is TRUE when score_record
\* raised, which leaves the records from that one on unscored
RECURSIVE ScoreOnly(_, _, _)
ScoreOnly(rs, i, to) ==
    IF i > to THEN [recs |-> rs, exc |-> FALSE]
    ELSE IF score_record_raises(Enriched(rs[i]))
         THEN [recs |-> rs, exc |-> TRUE]
         ELSE ScoreOnly([rs EXCEPT ![i] = Update(rs[i], score_record(Enriched(rs[i])))],
                        i + 1, to)


\* (mutant) a null of the model does not replace the record's value
MergeItemKeepingNonNull(rec, llm_obj) ==
    [k \in (DOMAIN rec) \cup TargetSet |->
        IF k \in TargetSet
        THEN (IF k \in DOMAIN llm_obj /\ llm_obj[k] # Null THEN llm_obj[k] ELSE Get(rec, k))
        ELSE rec[k]]

\* `for k in TARGET_FIELDS: rec[k] = llm_obj.get(k, rec.get(k))`
MergeItem(rec, llm_obj) ==
    [k \in (DOMAIN rec) \cup TargetSet |->
        IF k \in TargetSet
        THEN (IF k \in DOMAIN llm_obj THEN llm_obj[k] ELSE Get(rec, k))
        ELSE rec[k]]

\* the merge loop over enriched_list from item i on; at is the chunk's start
\* (0-based).  exc is TRUE when an item has no .get or score_record raised.
RECURSIVE MergeLoop(_, _, _, _)
MergeLoop(rs, at, enriched_list, i) ==
    IF i > Len(enriched_list) THEN [recs |-> rs, exc |-> FALSE]
    ELSE IF ~enriched_list[i].obj THEN [recs |-> rs, exc |-> TRUE]
    ELSE LET merged == MergeItem(rs[at + i], enriched_list[i].f)
             rs1 == [rs EXCEPT ![at + i] = merged]
         IN  IF score_record_raises(Enriched(merged))
             THEN [recs |-> rs1, exc |-> TRUE]
             ELSE MergeLoop([rs1 EXCEPT ![at + i] =
                                Update(merged, score_record(Enriched(merged)))],
                            at, enriched_list, i + 1)

\* (mutant) a fallback list of nulls instead of the records' own values
FallbackListOfNulls(rs, at, n) ==
    [i \in 1..n |-> [obj |-> TRUE, f |-> [k \in TargetSet |-> Null]]]

\* `[{k: chunk[i].get(k) for k in TARGET_FIELDS} for i in range(len(chunk))]`
FallbackList(rs, at, n) ==
    [i \in 1..n |-> [obj |-> TRUE, f |-> Enriched(rs[at + i])]]

\* TRUE when the body of the try block leaves by an exception before the
\* merge loop: the call, json.loads, or parsed.get on a non-object
RaisesBeforeMerge(r) == r.kind \in {"raise", "notjson", "notobject"}

\* (mutant) the model's list is also discarded when an item names another
\* firm than the record at its position
ListToMergeOrderChecked(rs, r) ==
    IF /\ r.kind = "list" /\ Len(r.items) = r.n
       /\ \A i \in 1..r.n :
            ("firm" \in DOMAIN r.items[i].f) => r.items[i].f["firm"] = rs[r.at + i]["firm"]
    THEN r.items
    ELSE FallbackList(rs, r.at, r.n)

\* the list the merge loop runs over: the model's, or the fallback
ListToMerge(rs, r) ==
    IF r.kind = "list" /\ Len(r.items) = r.n
    THEN r.items
    ELSE FallbackList(rs, r.at, r.n)

\* (mutant) an except handler that does nothing
ProcessChunkSilentHandler(rs, r) ==
    LET tried == IF RaisesBeforeMerge(r)
                 THEN [recs |-> rs, exc |-> TRUE]
                 ELSE MergeLoop(rs, r.at, ListToMerge(rs, r), 1)
    IN  [recs |-> tried.recs, exc |-> FALSE]

\* one iteration of the chunk loop: try block, then the except handler
ProcessChunk(rs, r) ==
    LET tried == IF RaisesBeforeMerge(r)
                 THEN [recs |-> rs, exc |-> TRUE]
                 ELSE MergeLoop(rs, r.at, ListToMerge(rs, r), 1)
    IN  IF tried.exc
        THEN ScoreOnly(tried.recs, r.at + 1, r.at + r.n)
        ELSE tried

LlmIdle ==
    /\ client = FALSE /\ batch_size = 1 /\ start = 0
    /\ resp = NoResponse

ParseIdle == value = Null /\ result = Null

\* the output file of llm_scorer.py: missing, a JSON list ("ok"), or bytes
\* json.load rejects ("corrupt")
NoFile == [state |-> "missing", list |-> <<>>]

\* llm_scorer.py has not run: no output file yet
ScorerIdle == output = NoFile /\ existing_results = <<>> /\ count = 0

OutsideIdle == idx = 0 /\ fetches = <<>> /\ tables = <<>> /\ trace = <<>> /\ ScorerIdle

EmptyFrame == [columns |-> <<>>, rows |-> <<>>]

NormIdle == df = EmptyFrame /\ normalized = EmptyFrame

InitLlm ==
    /\ pc = "llm_call"
    /\ \E n \in 0..MaxRecords : records \in InputLists(n)
    /\ pre = records
    /\ client \in BOOLEAN
    /\ batch_size \in 1..MaxBatch
    /\ start = 0
    /\ resp = NoResponse
    /\ ParseIdle
    /\ NormIdle
    /\ OutsideIdle
    /\ calls = <<>>

\* lines 102-113: entry, empty list, no client
LlmCall ==
    /\ pc = "llm_call"
    /\ IF Len(records) = 0
       THEN /\ pc' = "llm_returned"
            /\ UNCHANGED records
       ELSE IF ~client
       THEN LET out == ScoreOnly(records, 1, Len(records))
            IN  /\ records' = out.recs
                /\ pc' = IF out.exc THEN "llm_raised" ELSE "llm_returned"
       ELSE /\ pc' = "llm_loop"
            /\ UNCHANGED records
    /\ UNCHANGED <<pre, client, batch_size, start, resp, value, result, df, normalized>>
    /\ UNCHANGED outside
    /\ UNCHANGED calls

\* lines 114-149: one chunk, whatever the backend answers
LlmChunk ==
    /\ pc = "llm_loop"
    /\ start < Len(records)
    /\ LET end == Min(start + batch_size, Len(records))
       IN  \E r \in Responses(start, end - start) :
            LET out == ProcessChunk(records, r)
            IN  /\ records' = out.recs
                /\ resp' = r
                /\ calls' = Append(calls, [at |-> r.at, n |-> r.n, kind |-> r.kind])
                /\ pc' = IF out.exc THEN "llm_raised" ELSE "llm_loop"
                /\ start' = IF out.exc THEN start ELSE start + batch_size
    /\ UNCHANGED <<pre, client, batch_size, value, result, df, normalized>>
    /\ UNCHANGED outside

\* lines 150-151: the range is exhausted
LlmReturn ==
    /\ pc = "llm_loop"
    /\ start >= Len(records)
    /\ pc' = "llm_returned"
    /\ UNCHANGED <<records, pre, client, batch_size, start, resp, value, result, df, normalized>>
    /\ UNCHANGED outside
    /\ UNCHANGED calls

NextLlm == LlmCall \/ LlmChunk \/ LlmReturn

SpecLlm == InitLlm /\ [][NextLlm]_vars

----------------------------------------------------------------------------
(* Claims about enrich_batch_with_llm *)

\* the positions (1-based) of the records of the chunk last called for
LastChunk == IF resp.kind = "none" THEN {} ELSE (resp.at + 1)..(resp.at + resp.n)

\* no target field of record p differs from its pre-call value (absent = null)
Unchanged(p) == Enriched(records[p]) = Enriched(pre[p])

\* record p carries the values of the response item at its position
Applied(p) ==
    /\ resp.kind = "list"
    /\ Len(resp.items) = resp.n
    /\ resp.items[p - resp.at].obj
    /\ Enriched(records[p]) = Enriched(MergeItem(pre[p], resp.items[p - resp.at].f))

HasScores(rec) == ScoreKeys \subseteq DOMAIN rec

RightLengthList == resp.kind = "list" /\ Len(resp.items) = resp.n

\* item i can be merged and scored
Mergeable(i) ==
    /\ resp.items[i].obj
    /\ ~score_record_raises(Enriched(MergeItem(pre[resp.at + i], resp.items[i].f)))

\* the outcomes of a chunk call that make the chunk fall back: the call
\* raises, the text is unparsable, "records" is missing or not a list, the
\* list has the wrong length, or an item of the list is not an object
FallbackOutcome ==
    \/ resp.kind \in {"raise", "notjson", "notobject", "empty", "norecords", "notlist"}
    \/ resp.kind = "list" /\ Len(resp.items) # resp.n
    \/ RightLengthList /\ \E i \in 1..resp.n : ~resp.items[i].obj

\* C1: a chunk is applied all-or-nothing: after any model outcome either
\* every record of the chunk carries the model's values or no record of the
\* chunk has a target field changed; in particular, after an outcome that
\* makes the chunk fall back (and does not end the function) no record of the
\* chunk carries model values.
C1_AllOrNothing ==
    (FallbackOutcome /\ pc # "llm_raised") =>
        \/ \A p \in LastChunk : Unchanged(p)
        \/ \A p \in LastChunk : Applied(p)

\* C2: when "records" is not a list of exactly n items, every record of the
\* chunk keeps its pre-call value in each target field and carries the four
\* score fields.
CountMismatch ==
    \/ resp.kind \in {"empty", "norecords", "notlist"}
    \/ resp.kind = "list" /\ Len(resp.items) # resp.n

C2_MismatchFallsBack ==
    CountMismatch =>
        \A p \in LastChunk : Unchanged(p) /\ HasScores(records[p])

\* a list shorter than a chunk of at least two records, one of which held
\* search results, has been answered and handled
C2_Witness ==
    /\ resp.kind = "list"
    /\ resp.n >= 2
    /\ Len(resp.items) = resp.n - 1
    /\ \E p \in LastChunk : Filled(Get(pre[p], "description"))
    /\ \A p \in LastChunk : HasScores(records[p])

\* every item is an object naming the firm it answers for, and some item
\* sits at the position of another firm's record
Misordered ==
    /\ RightLengthList
    /\ \A i \in 1..resp.n :
        resp.items[i].obj /\ "firm" \in DOMAIN resp.items[i].f
    /\ \E i \in 1..resp.n : resp.items[i].f["firm"] # pre[resp.at + i]["firm"]

\* C3 (as claimed): a response of the right length whose items are in another
\* order than the chunk's records is not merged; the chunk keeps its
\* pre-call values.
C3_OrderValidated ==
    Misordered => \A p \in LastChunk : Unchanged(p)

\* C3 (amended): only the count is validated.  A list of the right length is
\* merged by position, item i into record i, for every i up to the first
\* item that cannot be merged or scored, whichever firm each item answers for.
C3_MergedByPosition ==
    RightLengthList =>
        \A i \in 1..resp.n :
            (resp.items[i].obj /\ \A j \in 1..(i - 1) : Mergeable(j))
                => Applied(resp.at + i)

\* a misordered response has been merged: the first record of the chunk
\* carries the website the model gave for another firm
C3_Witness ==
    /\ Misordered
    /\ \A p \in LastChunk : Applied(p)
    /\ \E q \in LastChunk :
        /\ q # resp.at + 1
        /\ Get(records[resp.at + 1], "website") = ItemFor(q).f["website"]

\* C4: no backend outcome aborts the run: enrich_batch_with_llm never leaves
\* by an exception, and it returns as many records as it was given.
C4_NeverAborts ==
    /\ pc # "llm_raised"
    /\ pc = "llm_returned" => Len(records) = Len(pre)

\* C5: after enrich_batch_with_llm returns, every record holds every one of
\* the 15 target-field keys.
C5_SchemaComplete ==
    pc = "llm_returned" =>
        \A p \in 1..Len(records) : TargetSet \subseteq DOMAIN records[p]

\* C6: after enrich_batch_with_llm returns, every record carries the four
\* score keys, and their values are score_record of its final target fields.
C6_ScoresMatchFinalFields ==
    pc = "llm_returned" =>
        \A p \in 1..Len(records) :
            /\ HasScores(records[p])
            /\ \A k \in ScoreKeys :
                records[p][k] = score_record(Enriched(records[p]))[k]

\* returned after a chunk merged from the model and a chunk that fell back
C6_Witness ==
    /\ pc = "llm_returned"
    /\ Len(records) >= 2
    /\ \E p \in 1..Len(records) : ~Unchanged(p)
    /\ \E p \in 1..Len(records) : Unchanged(p)
    /\ resp.kind \in {"raise", "notjson", "list"}

----------------------------------------------------------------------------
(* score_record on its own, and the scoring step run twice *)

Space == <<" ">>

\* texts naming 0..4 of the water keywords and 0..4 of the infra keywords
\* ("wastewater" and "water supply" both hold "water")
WaterText(nw) ==
    CASE nw = 0 -> <<>>
      [] nw = 1 -> water_keywords[4]
      [] nw = 2 -> water_keywords[2]
      [] nw = 3 -> water_keywords[4] \o Space \o water_keywords[2]
      [] OTHER  -> water_keywords[3] \o Space \o water_keywords[4]
                       \o Space \o water_keywords[2]

RECURSIVE InfraText(_)
InfraText(ni) ==
    IF ni = 0 THEN <<>>
    ELSE IF ni = 1 THEN infra_keywords[1]
    ELSE InfraText(ni - 1) \o Space \o infra_keywords[ni]

\* the descriptions: none, one without a keyword, a number, and one for
\* every pair of counts
Descriptions ==
    {Null, Str(<<"n", "/", "a">>), Num(5)}
        \cup {Str(WaterText(c[1]) \o Space \o InfraText(c[2])) :
                c \in {x \in (0..4) \X (0..4) : x[1] + x[2] > 0}}

\* the target fields other than description, in the order of TARGET_FIELDS
OtherFields == SelectSeq(TARGET_FIELDS, LAMBDA k : k # "description")

\* values that count as filled, some of them falsy or blank
FilledValue(j) ==
    CASE j % 4 = 1 -> Str(<<"x">>)
      [] j % 4 = 2 -> Num(0)
      [] j % 4 = 3 -> Str(<<" ">>)
      [] OTHER     -> List(<<"in1">>)

\* values that count as unfilled; a fourth of the unfilled keys are absent
UnfilledValue(j) ==
    CASE j % 4 = 1 -> Null
      [] j % 4 = 2 -> Str(<<>>)
      [] OTHER     -> List(<<>>)

\* a dict with the description desc and the first n other fields filled
ScoreArg(desc, n) ==
    [k \in {"description"}
            \cup {OtherFields[j] : j \in {i \in 1..Len(OtherFields) : i <= n \/ i % 4 # 0}} |->
        IF k = "description" THEN desc
        ELSE LET j == CHOOSE i \in 1..Len(OtherFields) : OtherFields[i] = k
             IN  IF j <= n THEN FilledValue(j) ELSE UnfilledValue(j)]

ScoreArgs == {ScoreArg(desc, n) : desc \in Descriptions, n \in 0..Len(OtherFields)}

\* records for the scoring step: a firm, and target fields of every kind
Scorable(desc, industry, n) ==
    Update(Update(BaseRecord(1), ScoreArg(desc, n)),
           [k \in {"industry"} |-> industry])

ScoreRecords ==
    {Update(BaseRecord(1), ScoreArg(Null, 0)),
     Update(BaseRecord(1), ScoreArg(Str(WaterText(4) \o Space \o InfraText(4)), 14)),
     Update(BaseRecord(1), ScoreArg(Str(<<"S","E","W","E","R">>), 7)),
     Update(BaseRecord(1), [k \in {"description"} |-> Str(<<"P","o","w","e","r">>)]),
     Scorable(Str(water_keywords[1]), Str(<<"s","u","p","p","l","y">>), 3),
     Scorable(Str(<<"w","a","s","t","e">>), Str(water_keywords[1]), 0),
     Scorable(Num(0), Null, 2),
     Scorable(List(<<>>), Num(0), 14),
     Scorable(Null, Str(<<"I","n","d","u","s","t","r","i","a","l">>), 5),
     Scorable(Num(5), Null, 0),
     Scorable(Null, List(<<"in1">>), 1),
     BaseRecord(1)}

InitScore ==
    /\ \/ /\ pc = "score_call"
          /\ value \in ScoreArgs
          /\ records = <<>>
       \/ /\ pc = "llm_call"
          /\ value = Null
          /\ records \in ListsOver(ScoreRecords, MaxRecords)
    /\ pre = records
    /\ result = Null
    /\ LlmIdle /\ NormIdle
    /\ OutsideIdle
    /\ calls = <<>>

\* score_record(value) returns
ScoreRecord ==
    /\ pc = "score_call"
    /\ ~score_record_raises(value)
    /\ result' = score_record(value)
    /\ pc' = "score_returned"
    /\ UNCHANGED <<records, pre, client, batch_size, start, resp, value, df, normalized>>
    /\ UNCHANGED outside
    /\ UNCHANGED calls

\* score_record(value) raises TypeError
ScoreRecordRaises ==
    /\ pc = "score_call"
    /\ score_record_raises(value)
    /\ pc' = "score_raised"
    /\ UNCHANGED <<records, pre, client, batch_size, start, resp, value, result, df, normalized>>
    /\ UNCHANGED outside
    /\ UNCHANGED calls

\* enrich_batch_with_llm called again, without a client, on the list it
\* returned: lines 102-111 on records that carry score keys
ScoreAgain ==
    /\ pc = "llm_returned"
    /\ ~client
    /\ Len(records) > 0
    /\ LET out == ScoreOnly(records, 1, Len(records))
       IN  /\ records' = out.recs
           /\ pc' = IF out.exc THEN "llm_raised" ELSE "llm_rescored"
    /\ pre' = records
    /\ UNCHANGED <<client, batch_size, start, resp, value, result, df, normalized>>
    /\ UNCHANGED outside
    /\ UNCHANGED calls

NextScore == ScoreRecord \/ ScoreRecordRaises \/ LlmCall \/ ScoreAgain

SpecScore == InitScore /\ [][NextScore]_vars

----------------------------------------------------------------------------
(* Claims about score_record *)

\* the calls of score_record that have returned: <<argument, scores>>
Scored ==
    (IF pc = "score_returned" THEN {<<value, result>>} ELSE {})
        \cup (IF pc \in {"llm_returned", "llm_rescored"}
              THEN {<<Enriched(pre[p]), records[p]>> : p \in 1..Len(records)}
              ELSE {})

\* the target fields an argument fills: present, and not null, "" or []
FilledFields(arg) ==
    {k \in TargetSet \cap DOMAIN arg :
        /\ arg[k] # Null
        /\ arg[k] # Str(<<>>)
        /\ arg[k] # List(<<>>)}

IsInt(v) == v.t = "num" /\ v.e = 0

\* C14: data_completeness_score is round(100 * f / 15), the integer nearest
\* to 100 f / 15, where f counts the target fields whose value is not null,
\* not "" and not []; absent fields count as unfilled.
C14_Completeness ==
    \A sc \in Scored :
        LET f == Cardinality(FilledFields(sc[1]))
            c == sc[2]["data_completeness_score"]
        IN  /\ IsInt(c)
            /\ 2 * (15 * c.n - 100 * f) <= 15
            /\ 2 * (100 * f - 15 * c.n) <= 15

\* an argument with absent, null, "" and [] fields and with falsy and blank
\* filled ones has been scored: 8 of 15 filled give 53
C14_Witness ==
    /\ pc = "score_returned"
    /\ value = ScoreArg(Str(WaterText(1) \o Space \o InfraText(0)), 7)
    /\ DOMAIN value # TargetSet
    /\ result["data_completeness_score"] = Num(53)

\* C15: data_completeness_score is monotone in the set of filled fields: of
\* two scored records, the one that fills every field the other fills has a
\* score at least as high.
C15_CompletenessMonotone ==
    pc = "llm_returned" =>
        \A p, q \in 1..Len(records) :
            FilledFields(Enriched(pre[p])) \subseteq FilledFields(Enriched(pre[q]))
                => records[p]["data_completeness_score"].n
                       <= records[q]["data_completeness_score"].n

\* two records, one filling strictly more than the other, have been scored
C15_Witness ==
    /\ pc = "llm_returned"
    /\ \E p, q \in 1..Len(records) :
        /\ FilledFields(Enriched(pre[p])) \subseteq FilledFields(Enriched(pre[q]))
        /\ FilledFields(Enriched(pre[p])) # FilledFields(Enriched(pre[q]))
        /\ FilledFields(Enriched(pre[p])) # {}
        /\ records[p]["data_completeness_score"].n
               < records[q]["data_completeness_score"].n

\* C16: whenever score_record returns, the two focus scores are multiples of
\* 25 in 0..100, and lead_score and data_completeness_score are integers in
\* 0..100.
C16_ScoreRanges ==
    \A sc \in Scored :
        /\ \A k \in {"water_focus_score", "infra_focus_score"} :
            IsInt(sc[2][k]) /\ sc[2][k].n \in {0, 25, 50, 75, 100}
        /\ \A k \in {"lead_score", "data_completeness_score"} :
            IsInt(sc[2][k]) /\ sc[2][k].n \in 0..100

\* every score at its upper end
C16_Witness ==
    /\ pc = "score_returned"
    /\ \A k \in ScoreKeys : result[k] = Num(100)

\* C17: lead_score is the floor of (4 w + 4 i + 2 c) / 10, and it is 0 when
\* description and industry are empty and the completeness is 0.
C17_LeadScore ==
    \A sc \in Scored :
        LET w == sc[2]["water_focus_score"].n
            i == sc[2]["infra_focus_score"].n
            c == sc[2]["data_completeness_score"].n
            lead == sc[2]["lead_score"].n
        IN  /\ 10 * lead <= 4 * w + 4 * i + 2 * c
            /\ 4 * w + 4 * i + 2 * c < 10 * (lead + 1)
            /\ (/\ ~Truthy(Get(sc[1], "description"))
                /\ ~Truthy(Get(sc[1], "industry"))
                /\ c = 0) => lead = 0

\* a weighted sum with a fraction has been truncated: 0.4 * 25 + 0.2 * 7
C17_Witness ==
    /\ pc = "score_returned"
    /\ result["water_focus_score"] = Num(25)
    /\ result["infra_focus_score"] = Num(0)
    /\ result["data_completeness_score"] = Num(7)
    /\ result["lead_score"] = Num(11)

\* the text of a field as the claim has it: a string's characters, and
\* nothing for null (and for the other values score_record accepts)
TextOf(v) == IF v.t = "str" THEN v.s ELSE <<>>

\* description followed by industry, one space between them, lower-cased
ClaimedText(arg) ==
    Lower(TextOf(Get(arg, "description")) \o <<" ">> \o TextOf(Get(arg, "industry")))

Occurs(word, text) ==
    \E at \in 0..Len(text) :
        /\ at + Len(word) <= Len(text)
        /\ \A j \in 1..Len(word) : text[at + j] = word[j]

FocusOf(words, text) ==
    LET hits == Cardinality({word \in words : Occurs(word, text)})
    IN  IF 25 * hits > 100 THEN 100 ELSE 25 * hits

\* C18: water_focus_score is min(100, 25 * the number of the keywords water,
\* wastewater, water supply, sewer that occur in the lower-cased text of
\* description followed by industry), and infra_focus_score the same over
\* infrastructure, transportation, power, industrial.
C18_FocusScores ==
    \A sc \in Scored :
        /\ sc[2]["water_focus_score"].n =
            FocusOf({<<"w","a","t","e","r">>,
                     <<"w","a","s","t","e","w","a","t","e","r">>,
                     <<"w","a","t","e","r"," ","s","u","p","p","l","y">>,
                     <<"s","e","w","e","r">>}, ClaimedText(sc[1]))
        /\ sc[2]["infra_focus_score"].n =
            FocusOf({<<"i","n","f","r","a","s","t","r","u","c","t","u","r","e">>,
                     <<"t","r","a","n","s","p","o","r","t","a","t","i","o","n">>,
                     <<"p","o","w","e","r">>,
                     <<"i","n","d","u","s","t","r","i","a","l">>}, ClaimedText(sc[1]))

\* a record with a null description and the industry "Industrial", and one
\* with an upper-case description, have been scored
C18_Witness ==
    /\ pc = "llm_returned"
    /\ \E p \in 1..Len(records) :
        /\ Get(pre[p], "description") = Null
        /\ records[p]["infra_focus_score"] = Num(25)
    /\ \E p \in 1..Len(records) :
        /\ Get(pre[p], "description") = Str(<<"S","E","W","E","R">>)
        /\ records[p]["water_focus_score"] = Num(25)

\* C19: scoring never accumulates: the scoring step run again on records
\* that carry the score keys of an earlier run leaves the four scores as the
\* first run set them.
C19_Rescored ==
    pc = "llm_rescored" =>
        \A p \in 1..Len(records) : \A k \in ScoreKeys :
            records[p][k] = pre[p][k]

\* a record that carried non-zero scores has been scored again
C19_Witness ==
    /\ pc = "llm_rescored"
    /\ \E p \in 1..Len(records) :
        /\ HasScores(pre[p])
        /\ pre[p]["lead_score"].n > 0
        /\ pre[p]["water_focus_score"].n > 0

----------------------------------------------------------------------------
(* Python string methods and float() *)

IsSpace(c) == c \in {" ", "\t", "\n"}

RECURSIVE LStrip(_)
LStrip(str) ==
    IF str # <<>> /\ IsSpace(Head(str)) THEN LStrip(Tail(str)) ELSE str

RECURSIVE RStrip(_)
RStrip(str) ==
    IF str # <<>> /\ IsSpace(str[Len(str)])
    THEN RStrip(SubSeq(str, 1, Len(str) - 1))
    ELSE str

\* str.strip()
Strip(str) == RStrip(LStrip(str))

\* str.rstrip(",")
RECURSIVE RStripComma(_)
RStripComma(str) ==
    IF str # <<>> /\ str[Len(str)] = ","
    THEN RStripComma(SubSeq(str, 1, Len(str) - 1))
    ELSE str

\* str.replace(c, "") for a one-character c
Remove(str, c) == SelectSeq(str, LAMBDA x : x # c)

DigitChars == <<"0","1","2","3","4","5","6","7","8","9">>

IsDigit(c) == \E i \in 1..10 : DigitChars[i] = c

DigitVal(c) == (CHOOSE i \in 1..10 : DigitChars[i] = c) - 1

RECURSIVE DigitsValue(_)
DigitsValue(ds) ==
    IF ds = <<>> THEN 0
    ELSE 10 * DigitsValue(SubSeq(ds, 1, Len(ds) - 1)) + DigitVal(ds[Len(ds)])

RECURSIVE IntDigits(_)
IntDigits(k) ==
    IF k < 10 THEN <<DigitChars[k + 1]>>
    ELSE Append(IntDigits(k \div 10), DigitChars[(k % 10) + 1])

\* str(v) for None, a str, a non-negative int and float("nan")
PyStr(v) ==
    CASE v.t = "str" -> v.s
      [] v.t = "null" -> <<"N","o","n","e">>
      [] v.t = "nan" -> <<"n","a","n">>
      [] OTHER -> IntDigits(v.n)

\* m / 10^k with the trailing zeros of the fraction dropped
RECURSIVE Normalise(_, _)
Normalise(m, k) ==
    IF k > 0 /\ m % 10 = 0 THEN Normalise(m \div 10, k - 1) ELSE Float(m, k)

Raised == [t |-> "raise", s |-> <<>>, n |-> 0, e |-> 0]
Infinity(sign) == [t |-> "inf", s |-> <<>>, n |-> sign, e |-> 0]

\* float(str).  The literal is: optional whitespace, optional sign, then
\* "nan", "inf", "infinity" (any case) or decimal digits with at most one
\* point, then optional whitespace; anything else raises ValueError.  (The
\* exponent and digit-group forms need "e" or "_" next to a digit, which no
\* cell of the model holds.)
PyFloat(str) ==
    LET body == Strip(str)
        signed == body # <<>> /\ body[1] \in {"+", "-"}
        sign == IF body # <<>> /\ body[1] = "-" THEN -1 ELSE 1
        u == IF signed THEN Tail(body) ELSE body
        points == {i \in 1..Len(u) : u[i] = "."}
        digits == Remove(u, ".")
    IN  IF Lower(u) = <<"n","a","n">> THEN NaN
        ELSE IF Lower(u) \in {<<"i","n","f">>, <<"i","n","f","i","n","i","t","y">>}
        THEN Infinity(sign)
        ELSE IF /\ digits # <<>>
                /\ \A i \in 1..Len(digits) : IsDigit(digits[i])
                /\ Cardinality(points) <= 1
        THEN Normalise(sign * DigitsValue(digits),
                       IF points = {} THEN 0
                       ELSE Len(u) - (CHOOSE i \in points : TRUE))
        ELSE Raised

----------------------------------------------------------------------------
(* pdf_parser.py: _parse_number and _clean_firm_name *)

\* one symbol each for the code points U+2014 (em dash) and U+2020 (dagger)
EmDash == "U+2014"
Dagger == "U+2020"

NullTokens == {<<"-">>, <<EmDash>>, <<>>}

\* (mutant) the commas are left in the text given to float()
parse_number_keeping_commas(v) ==
    IF ~Truthy(v) \/ Strip(PyStr(v)) \in NullTokens THEN Null
    ELSE LET f == PyFloat(Strip(PyStr(v)))
         IN  IF f = Raised THEN Null ELSE f

parse_number(v) ==
    IF ~Truthy(v) \/ Strip(PyStr(v)) \in NullTokens THEN Null
    ELSE LET s == Strip(Remove(PyStr(v), ","))
             f == PyFloat(s)
         IN  IF f = Raised THEN Null ELSE f

clean_firm_name(v) ==
    IF v.t # "str" THEN <<>>
    ELSE RStripComma(Strip(Remove(v.s, Dagger)))

----------------------------------------------------------------------------
(* _parse_number on every short cell *)

CellAlphabet == {"0", "1", ",", ".", "-", EmDash, " ", "n", "a"}

RECURSIVE Strings(_, _)
Strings(alphabet, n) ==
    IF n = 0 THEN {<<>>}
    ELSE LET shorter == Strings(alphabet, n - 1)
         IN  shorter \cup {Append(w, c) : w \in {x \in shorter : Len(x) = n - 1},
                                          c \in alphabet}

\* a cell of pdfplumber's extract_tables: a str or None
Cells(n) == {Null} \cup {Str(w) : w \in Strings(CellAlphabet, n)}

RecordsIdle == records = <<>> /\ pre = <<>>

InitParse ==
    /\ pc = "parse_call"
    /\ value \in Cells(MaxCellLen)
    /\ result = Null
    /\ RecordsIdle /\ LlmIdle /\ NormIdle
    /\ OutsideIdle
    /\ calls = <<>>

ParseNumber ==
    /\ pc = "parse_call"
    /\ result' = parse_number(value)
    /\ pc' = "parse_returned"
    /\ UNCHANGED <<records, pre, client, batch_size, start, resp, value, df, normalized>>
    /\ UNCHANGED outside
    /\ UNCHANGED calls

NextParse == ParseNumber

SpecParse == InitParse /\ [][NextParse]_vars

\* the text of a cell with its thousands separators removed
WithoutSeparators(v) == Remove(v.s, ",")

\* C8: _parse_number never raises; it returns null for a null, empty, "-" or
\* em-dash cell (after trimming), null when the text without its commas is
\* not parseable as a float, and otherwise the float that text denotes.
C8_ParseNumber ==
    pc = "parse_returned" =>
        /\ result # Raised
        /\ IF value = Null \/ Strip(value.s) \in {<<>>, <<"-">>, <<EmDash>>}
           THEN result = Null
           ELSE IF PyFloat(WithoutSeparators(value)) = Raised
           THEN result = Null
           ELSE result = PyFloat(WithoutSeparators(value))

\* "1,0" has been parsed to 10.0
C8_Witness ==
    /\ pc = "parse_returned"
    /\ value = Str(<<"1", ",", "0">>)
    /\ result = Float(10, 0)

----------------------------------------------------------------------------
(* pdf_parser.py: normalize_enr_table *)
(* A DataFrame is [columns, rows]: the column labels (ints of the default  *)
(* index as Num, header cells as Str or Null) and the rows of cells.       *)

clean_cols ==
    << <<"e","n","r","_","r","a","n","k","_","2","0","2","5">>,
       <<"e","n","r","_","r","a","n","k","_","2","0","2","4">>,
       <<"f","i","r","m">>,
       <<"t","o","t","a","l","_","r","e","v","e","n","u","e","_","m">>,
       <<"i","n","t","_","t","o","t","a","l","_","r","e","v","e","n","u","e","_","m">>,
       <<"n","e","w","_","c","o","n","t","r","a","c","t","s">>,
       <<"g","e","n","e","r","a","l","_","b","u","i","l","d","i","n","g","_","p","c","t">>,
       <<"m","a","n","u","f","a","c","t","u","r","i","n","g","_","p","c","t">>,
       <<"p","o","w","e","r","_","p","c","t">>,
       <<"w","a","t","e","r","_","s","u","p","p","l","y","_","p","c","t">>,
       <<"s","e","w","e","r","_","w","a","s","t","e","_","p","c","t">>,
       <<"i","n","d","u","s","t","r","i","a","l","_","o","i","l","g","a","s","_","p","c","t">>,
       <<"t","r","a","n","s","p","o","r","t","a","t","i","o","n","_","p","c","t">>,
       <<"h","a","z","a","r","d","o","u","s","_","w","a","s","t","e","_","p","c","t">>,
       <<"t","e","l","e","c","o","m","_","p","c","t">> >>

num_cols ==
    << <<"e","n","r","_","r","a","n","k","_","2","0","2","5">>,
       <<"e","n","r","_","r","a","n","k","_","2","0","2","4">>,
       <<"t","o","t","a","l","_","r","e","v","e","n","u","e">>,
       <<"i","n","t","_","t","o","t","a","l","_","r","e","v","e","n","u","e">>,
       <<"n","e","w","_","c","o","n","t","r","a","c","t","s","_","m">>,
       <<"g","e","n","e","r","a","l","_","b","u","i","l","d","i","n","g","_","p","c","t">>,
       <<"m","a","n","u","f","a","c","t","u","r","i","n","g","_","p","c","t">>,
       <<"p","o","w","e","r","_","p","c","t">>,
       <<"w","a","t","e","r","_","s","u","p","p","l","y","_","p","c","t">>,
       <<"s","e","w","e","r","_","w","a","s","t","e","_","p","c","t">>,
       <<"i","n","d","u","s","t","r","i","a","l","_","o","i","l","g","a","s","_","p","c","t">>,
       <<"t","r","a","n","s","p","o","r","t","a","t","i","o","n","_","p","c","t">>,
       <<"h","a","z","a","r","d","o","u","s","_","w","a","s","t","e","_","p","c","t">>,
       <<"t","e","l","e","c","o","m","_","p","c","t">> >>

w_firm == <<"f","i","r","m">>
w_revenue == <<"r","e","v","e","n","u","e">>
w_rank == <<"r","a","n","k">>
w_rank_2025 == <<"r","a","n","k","_","2","0","2","5">>

SeqToSet(sq) == {sq[i] : i \in 1..Len(sq)}

\* " ".join(map(str, cells))
RECURSIVE JoinCells(_)
JoinCells(cells) ==
    IF cells = <<>> THEN <<>>
    ELSE IF Len(cells) = 1 THEN PyStr(cells[1])
    ELSE PyStr(cells[1]) \o <<" ">> \o JoinCells(Tail(cells))

\* "firm" in joined and "revenue" in joined
LooksLikeHeader(row) ==
    LET joined == Lower(JoinCells(row))
    IN  Contains(joined, w_firm) /\ Contains(joined, w_revenue)

\* line 81: the frame may still hold its header rows
MayHoldHeader(columns) ==
    \/ columns[1].t # "str"
    \/ \E i \in 1..Len(columns) :
        /\ columns[i].t = "str"
        /\ \E c \in {w_firm, w_revenue, w_rank} : Contains(Lower(PyStr(columns[i])), c)

\* lines 83-88: the first of the first three rows that looks like a header
\* (1-based), 0 for none
HeaderRowOf(rows) ==
    LET hits == {i \in 1..Min(3, Len(rows)) : LooksLikeHeader(rows[i])}
    IN  IF hits = {} THEN 0 ELSE CHOOSE i \in hits : \A j \in hits : i <= j

\* lines 81-91
SkipHeader(frame) ==
    IF MayHoldHeader(frame.columns) /\ HeaderRowOf(frame.rows) # 0
    THEN [frame EXCEPT !.rows = SubSeq(frame.rows, HeaderRowOf(frame.rows) + 1,
                                       Len(frame.rows))]
    ELSE frame

\* line 94: str(df.columns[2]) is evaluated when columns[0] has no "rank",
\* and raises IndexError on a frame of fewer than three columns
RenameTestRaises(columns) ==
    /\ ~Contains(Lower(PyStr(columns[1])), w_rank)
    /\ Len(columns) < 3

\* `a or b or c`, evaluated left to right
RenameTest(columns) ==
    IF Contains(Lower(PyStr(columns[1])), w_rank) THEN TRUE
    ELSE IF Contains(Lower(PyStr(columns[3])), w_firm) THEN TRUE
    ELSE ~Contains(Lower(PyStr(columns[1])), w_rank_2025)

Abs(k) == IF k < 0 THEN -k ELSE k

\* lines 114-115: the frame takes the clean names when its width is within 5
\* of theirs; assigning fewer names than columns raises ValueError
Renames(columns) ==
    IF RenameTest(columns) THEN Abs(Len(columns) - Len(clean_cols)) <= 5 ELSE FALSE

RenameRaises(columns) ==
    IF Renames(columns) THEN Len(columns) > Len(clean_cols) ELSE FALSE

Renamed(columns) ==
    IF Renames(columns)
    THEN [i \in 1..Len(columns) |-> Str(clean_cols[i])]
    ELSE columns

\* lines 134-136: _parse_number over every column named in num_cols
ParseNumericColumns(frame) ==
    [frame EXCEPT !.rows =
        [r \in 1..Len(frame.rows) |->
            [c \in 1..Len(frame.columns) |->
                IF /\ frame.columns[c].t = "str"
                   /\ frame.columns[c].s \in SeqToSet(num_cols)
                THEN parse_number(frame.rows[r][c])
                ELSE frame.rows[r][c]]]]

\* the position of the column labelled "firm", 0 when there is none
FirmColumn(columns) ==
    LET hits == {c \in 1..Len(columns) : columns[c] = Str(w_firm)}
    IN  IF hits = {} THEN 0 ELSE CHOOSE c \in hits : TRUE

\* line 139
CleanFirms(frame) ==
    LET fc == FirmColumn(frame.columns)
    IN  [frame EXCEPT !.rows =
            [r \in 1..Len(frame.rows) |->
                [frame.rows[r] EXCEPT ![fc] = Str(clean_firm_name(frame.rows[r][fc]))]]]

\* line 142
DropEmptyFirms(frame) ==
    LET fc == FirmColumn(frame.columns)
    IN  [frame EXCEPT !.rows =
            SelectSeq(frame.rows, LAMBDA row : row[fc] # Null /\ row[fc] # Str(<<>>))]

\* TRUE when normalize_enr_table leaves by an exception: IndexError at line
\* 94, ValueError at line 115, KeyError at line 139
normalize_raises(frame) ==
    IF RenameTestRaises(frame.columns) THEN TRUE
    ELSE IF RenameRaises(frame.columns) THEN TRUE
    ELSE FirmColumn(Renamed(frame.columns)) = 0

normalize_enr_table(frame) ==
    LET skipped == SkipHeader(frame)
        renamed == [skipped EXCEPT !.columns = Renamed(skipped.columns)]
    IN  DropEmptyFirms(CleanFirms(ParseNumericColumns(renamed)))

----------------------------------------------------------------------------
(* The frames given to normalize_enr_table *)

\* the header cells of the source table, left to right
HeaderCells ==
    << <<"R","A","N","K">>,
       <<"R","A","N","K">>,
       <<"F","I","R","M">>,
       <<"R","E","V","E","N","U","E">>,
       <<"R","E","V","E","N","U","E">>,
       <<"C","O","N","T","R","A","C","T","S">> >>

HeaderRow(n) ==
    [i \in 1..n |-> IF i <= Len(HeaderCells) THEN Str(HeaderCells[i])
                    ELSE Str(<<"P","C","T">>)]

\* the labels pandas gives a frame built from rows alone: 0, 1, ...
RangeIndex(n) == [i \in 1..n |-> Num(i - 1)]

NumberCells ==
    {Str(<<"1",",","2","0","4",".","5">>), Str(<<EmDash>>), Str(<<"n","a","n">>), Null}

FirmCells ==
    {Str(<<"A","c","m","e",","," ","T","X">>),
     Str(<<"B","e","t","a",Dagger>>),
     Str(<<"A","c","e"," ",",">>),
     Str(<<" ",",">>),
     Null}

\* a data row: the firm in the third cell, one number cell everywhere else
DataRow(n, firm, number) == [i \in 1..n |-> IF i = 3 THEN firm ELSE number]

Rows(n) ==
    {HeaderRow(n)} \cup {DataRow(n, f, c) : f \in FirmCells, c \in NumberCells}

RECURSIVE RowLists(_, _)
RowLists(n, k) ==
    IF k = 0 THEN {<<>>}
    ELSE LET shorter == RowLists(n, k - 1)
         IN  shorter \cup {Append(l, r) : l \in {x \in shorter : Len(x) = k - 1},
                                          r \in Rows(n)}

\* widths on each side of the tests of lines 94 and 114
Widths == {2, 5, 15, 16}

\* the frames of at most k rows: every row as wide as the labels
Frames(k) ==
    UNION {{[columns |-> cols, rows |-> rows] :
                cols \in {HeaderRow(n), RangeIndex(n)}, rows \in RowLists(n, k)} :
           n \in Widths}

InitNorm ==
    /\ pc = "norm_call"
    /\ df \in Frames(MaxRows)
    /\ normalized = EmptyFrame
    /\ RecordsIdle /\ LlmIdle /\ ParseIdle
    /\ OutsideIdle
    /\ calls = <<>>

\* normalize_enr_table returns
Normalize ==
    /\ pc = "norm_call"
    /\ ~normalize_raises(df)
    /\ normalized' = normalize_enr_table(df)
    /\ pc' = "norm_returned"
    /\ UNCHANGED <<records, pre, client, batch_size, start, resp, value, result, df>>
    /\ UNCHANGED outside
    /\ UNCHANGED calls

\* normalize_enr_table raises
NormalizeRaises ==
    /\ pc = "norm_call"
    /\ normalize_raises(df)
    /\ pc' = "norm_raised"
    /\ UNCHANGED <<records, pre, client, batch_size, start, resp, value, result, df, normalized>>
    /\ UNCHANGED outside
    /\ UNCHANGED calls

NextNorm == Normalize \/ NormalizeRaises

SpecNorm == InitNorm /\ [][NextNorm]_vars

----------------------------------------------------------------------------
(* Claims about normalize_enr_table *)

\* the numeric fields of a record: every clean column but the firm
NumericFields == SeqToSet(clean_cols) \ {w_firm}

IsFiniteFloat(v) == v.t = "num"

\* C7: after normalize_enr_table every numeric field of every record is a
\* finite float or null: no raw string, no NaN, no infinity.
C7_NumericFieldsParsed ==
    pc = "norm_returned" =>
        \A r \in 1..Len(normalized.rows) : \A c \in 1..Len(normalized.columns) :
            (normalized.columns[c].t = "str" /\ normalized.columns[c].s \in NumericFields)
                => (normalized.rows[r][c] = Null \/ IsFiniteFloat(normalized.rows[r][c]))

\* the firm cells of the rows of a frame, in order
FirmsOf(frame) ==
    [r \in 1..Len(frame.rows) |-> frame.rows[r][FirmColumn(frame.columns)]]

WellCleaned(firm) ==
    /\ firm.t = "str"
    /\ firm.s # <<>>
    /\ \A i \in 1..Len(firm.s) : firm.s[i] # Dagger
    /\ firm.s[Len(firm.s)] # ","
    /\ ~IsSpace(firm.s[Len(firm.s)])

\* C9: every record returned by normalize_enr_table has a non-empty firm
\* with no dagger and no trailing comma or whitespace; the rows whose cleaned
\* firm is empty are dropped and the others are kept in order.
C9_FirmsClean ==
    pc = "norm_returned" =>
        /\ \A r \in 1..Len(normalized.rows) : WellCleaned(FirmsOf(normalized)[r])
        /\ LET dataRows == SkipHeader(df).rows
               cleaned == [r \in 1..Len(dataRows) |-> Str(clean_firm_name(dataRows[r][3]))]
           IN  FirmsOf(normalized) = SelectSeq(cleaned, LAMBDA f : f.s # <<>>)

----------------------------------------------------------------------------
(* uitility.py: add_location_field *)

HasComma(str) == \E i \in 1..Len(str) : str[i] = ","

FirstComma(str) ==
    CHOOSE i \in 1..Len(str) : str[i] = "," /\ \A j \in 1..(i - 1) : str[j] # ","

\* (mutant) firm_value.rsplit(',', 1)[1]
AfterLastComma(str) ==
    SubSeq(str, (CHOOSE i \in 1..Len(str) :
                    str[i] = "," /\ \A j \in (i + 1)..Len(str) : str[j] # ",") + 1,
           Len(str))

\* firm_value.split(',', 1)[1]
AfterFirstComma(str) == SubSeq(str, FirstComma(str) + 1, Len(str))

LocationOf(record) ==
    LET firm_value == Get(record, "firm")
    IN  IF firm_value.t = "str" /\ HasComma(firm_value.s)
        THEN Str(Strip(AfterFirstComma(firm_value.s)))
        ELSE Null

add_location_field(recs) ==
    [i \in 1..Len(recs) |->
        Update(recs[i], [k \in {"location"} |-> LocationOf(recs[i])])]

FirmValues ==
    {Str(<<"A","c","m","e",","," ","T","X">>),
     Str(<<"B","e","t","a">>),
     Str(<<"A",",","B"," ",","," ","C"," ">>),
     Str(<<"A","c","e"," ",",">>),
     Null,
     Num(7)}

\* records as the parse stage leaves them, and one without a firm
LocationInputs ==
    {[k \in {"firm", "enr_rank_2025"} |-> IF k = "firm" THEN f ELSE Float(1, 0)] :
        f \in FirmValues}
    \cup {[k \in {"enr_rank_2025"} |-> Float(2, 0)]}

InitLoc ==
    /\ pc = "loc_call"
    /\ records \in ListsOver(LocationInputs, MaxRecords)
    /\ pre = records
    /\ LlmIdle /\ ParseIdle /\ NormIdle
    /\ OutsideIdle
    /\ calls = <<>>

AddLocation ==
    /\ pc = "loc_call"
    /\ records' = add_location_field(records)
    /\ pc' = "loc_returned"
    /\ UNCHANGED <<pre, client, batch_size, start, resp, value, result, df, normalized>>
    /\ UNCHANGED outside
    /\ UNCHANGED calls

NextLoc == AddLocation

SpecLoc == InitLoc /\ [][NextLoc]_vars

\* C10: location is the trimmed text after the first comma of a string firm
\* that has a comma, and null for every other record; the number and order
\* of the records and every other key, firm included, are unchanged.
C10_Location ==
    pc = "loc_returned" =>
        /\ Len(records) = Len(pre)
        /\ \A i \in 1..Len(records) :
            /\ DOMAIN records[i] = (DOMAIN pre[i]) \cup {"location"}
            /\ \A k \in (DOMAIN pre[i]) \ {"location"} : records[i][k] = pre[i][k]
            /\ LET firm == Get(pre[i], "firm")
                   loc == records[i]["location"]
               IN  IF firm.t = "str" /\ HasComma(firm.s)
                   THEN /\ loc.t = "str"
                        /\ loc.s = Strip(loc.s)
                        /\ \E c \in 1..Len(firm.s) :
                            /\ firm.s[c] = ","
                            /\ \A j \in 1..(c - 1) : firm.s[j] # ","
                            /\ Strip(SubSeq(firm.s, c + 1, Len(firm.s))) = loc.s
                   ELSE loc = Null

\* a firm with two commas got the text after the first one, trimmed, and a
\* record without a comma got null
C10_Witness ==
    /\ pc = "loc_returned"
    /\ \E i \in 1..Len(records) :
        /\ Get(pre[i], "firm") = Str(<<"A",",","B"," ",","," ","C"," ">>)
        /\ records[i]["location"] = Str(<<"B"," ",","," ","C">>)
    /\ \E i \in 1..Len(records) :
        /\ Get(pre[i], "firm").t # "str"
        /\ records[i]["location"] = Null

----------------------------------------------------------------------------
(* duckduckgo_enricher.py: the search stage *)

IsWordChar(c) ==
    IsDigit(c) \/ c = "_" \/ \E i \in 1..26 : UpperAZ[i] = c \/ LowerAZ[i] = c

\* the regular expression \b between the characters e and e + 1 of str
WordBoundary(str, e) ==
    (e >= 1 /\ e <= Len(str) /\ IsWordChar(str[e]))
        # (e + 1 >= 1 /\ e + 1 <= Len(str) /\ IsWordChar(str[e + 1]))

\* word (in lower case) matches at position at of str, ignoring case
MatchAt(str, at, word) ==
    /\ at >= 1
    /\ at + Len(word) - 1 <= Len(str)
    /\ Lower(SubSeq(str, at, at + Len(word) - 1)) = word

\* re.search(word, str, re.I) for a literal word, and for \bword\b
SearchWord(str, word) == \E at \in 1..Len(str) : MatchAt(str, at, word)

SearchWholeWord(str, word) ==
    \E at \in 1..Len(str) :
        /\ MatchAt(str, at, word)
        /\ WordBoundary(str, at - 1)
        /\ WordBoundary(str, at + Len(word) - 1)

\* line 68: ,\s*(?:USA|United States|U\.S\.|US)\b
SearchUnitedStates(location) ==
    \E p \in 1..Len(location) :
        /\ location[p] = ","
        /\ \E at \in (p + 1)..Len(location) :
            /\ \A j \in (p + 1)..(at - 1) : IsSpace(location[j])
            /\ \E word \in {<<"u","s","a">>, <<"u","n","i","t","e","d"," ","s","t","a","t","e","s">>, <<"u",".","s",".">>, <<"u","s">>} :
                /\ MatchAt(location, at, word)
                /\ WordBoundary(location, at + Len(word) - 1)

\* the text after the last comma, for a text that has one
TrailingToken(str) ==
    LET last == CHOOSE i \in 1..Len(str) :
                    str[i] = "," /\ \A j \in (i + 1)..Len(str) : str[j] # ","
    IN  Strip(SubSeq(str, last + 1, Len(str)))

guess_country_from_location(location) ==
    IF ~Truthy(location) THEN Null
    ELSE IF SearchUnitedStates(location.s) THEN Str(<<"U","n","i","t","e","d"," ","S","t","a","t","e","s">>)
    ELSE IF SearchWholeWord(location.s, <<"c","a","n","a","d","a">>) THEN Str(<<"C","a","n","a","d","a">>)
    ELSE IF \/ SearchWholeWord(location.s, <<"u","k">>)
            \/ \E word \in {<<"u","n","i","t","e","d"," ","k","i","n","g","d","o","m">>, <<"e","n","g","l","a","n","d">>, <<"s","c","o","t","l","a","n","d">>, <<"w","a","l","e","s">>} :
                SearchWord(location.s, word)
    THEN Str(<<"U","n","i","t","e","d"," ","K","i","n","g","d","o","m">>)
    ELSE IF SearchWholeWord(location.s, <<"i","n","d","i","a">>) THEN Str(<<"I","n","d","i","a">>)
    ELSE IF HasComma(location.s) /\ Len(TrailingToken(location.s)) > 2
    THEN Str(TrailingToken(location.s))
    ELSE Null

\* what _fetch_html returns: None after an exception, an empty body, or a
\* results page.  A page is held as what the regular expressions of the
\* caller find in it: first_url what _extract_first_url returns, blob what
\* _extract_snippets returns, linkedin whether line 122 finds a company page.
NoHtml == [t |-> "none", first_url |-> Null, blob |-> <<>>, linkedin |-> FALSE]
EmptyHtml == [t |-> "empty", first_url |-> Null, blob |-> <<>>, linkedin |-> FALSE]
Page(first_url, blob, linkedin) ==
    [t |-> "page", first_url |-> first_url, blob |-> blob, linkedin |-> linkedin]

\* `not html`
NoContent(html) == html.t \in {"none", "empty"}

\* urllib.parse.quote_plus: a space becomes "+", letters, digits and _.-~
\* stay, every other character becomes its %XX code
Quoted(c) ==
    CASE c = " " -> <<"+">>
      [] c = "," -> <<"%", "2", "C">>
      [] c = "&" -> <<"%", "2", "6">>
      [] OTHER   -> <<c>>

RECURSIVE quote_plus(_)
quote_plus(str) ==
    IF str = <<>> THEN <<>> ELSE Quoted(Head(str)) \o quote_plus(Tail(str))

\* (mutant) the second fetch is made whatever the first returned
FetchesAlwaysRetrying(firm_name, h1, h2) ==
    << [query |-> quote_plus(firm_name \o <<" ","c","o","m","p","a","n","y">>), html |-> h1],
       [query |-> quote_plus(firm_name), html |-> h2] >>

\* lines 101-106: the calls of _fetch_html of one enrich_with_duckduckgo,
\* h1 and h2 being what the first and the second would return
Fetches(firm_name, h1, h2) ==
    IF NoContent(h1)
    THEN << [query |-> quote_plus(firm_name \o <<" ","c","o","m","p","a","n","y">>), html |-> h1],
            [query |-> quote_plus(firm_name), html |-> h2] >>
    ELSE << [query |-> quote_plus(firm_name \o <<" ","c","o","m","p","a","n","y">>), html |-> h1] >>

\* line 117: linkedin|wikipedia|bloomberg|crunchbase|indeed|glassdoor
DenyListed(url) ==
    \E word \in {<<"l","i","n","k","e","d","i","n">>, <<"w","i","k","i","p","e","d","i","a">>, <<"b","l","o","o","m","b","e","r","g">>, <<"c","r","u","n","c","h","b","a","s","e">>, <<"i","n","d","e","e","d">>,
                 <<"g","l","a","s","s","d","o","o","r">>} : SearchWord(url, word)

\* the characters of the class [A-Za-z\s\.-]
IsPlaceChar(c) ==
    IsSpace(c) \/ c \in {".", "-"} \/ \E i \in 1..26 : UpperAZ[i] = c \/ LowerAZ[i] = c

\* the last position of the run of class characters that starts at from
\* (from - 1 when the character at from is not of the class)
RECURSIVE RunEnd(_, _)
RunEnd(str, from) ==
    IF from <= Len(str) /\ IsPlaceChar(str[from]) THEN RunEnd(str, from + 1)
    ELSE from - 1

\* line 133, matched with the prefix word at position at: the end of
\* group 1, or 0 when the expression does not match there
HeadquartersEnd(blob, at, word) ==
    IF ~MatchAt(blob, at, word) THEN 0
    ELSE LET b == at + Len(word)
             r == RunEnd(blob, b)
         IN  IF /\ b <= Len(blob) /\ IsSpace(blob[b])
                /\ r >= b + 1
                /\ r + 1 <= Len(blob) /\ blob[r + 1] = ","
                /\ RunEnd(blob, r + 2) >= r + 2
             THEN RunEnd(blob, r + 2)
             ELSE 0

\* lines 133-135: group 1 of the leftmost match, stripped
Headquarters(blob) ==
    LET words == {<<"h","e","a","d","q","u","a","r","t","e","r","e","d"," ","i","n">>, <<"b","a","s","e","d"," ","i","n">>}
        hits == {at \in 1..Len(blob) :
                    \E word \in words : HeadquartersEnd(blob, at, word) # 0}
    IN  IF hits = {} THEN Null
        ELSE LET at == CHOOSE h \in hits : \A g \in hits : h <= g
                 word == CHOOSE w \in words : HeadquartersEnd(blob, at, w) # 0
             IN  Str(Strip(SubSeq(blob, at + Len(word),
                                  HeadquartersEnd(blob, at, word))))

\* lines 138-141
OperatingRegions(blob) ==
    IF \E word \in {<<"g","l","o","b","a","l">>, <<"w","o","r","l","d","w","i","d","e">>, <<"i","n","t","e","r","n","a","t","i","o","n","a","l">>} : SearchWord(blob, word)
    THEN Str(<<"G","l","o","b","a","l">>)
    ELSE IF \E word \in {<<"n","o","r","t","h"," ","a","m","e","r","i","c","a">>, <<"u","s","a">>, <<"u","n","i","t","e","d"," ","s","t","a","t","e","s">>, <<"c","a","n","a","d","a">>, <<"m","e","x","i","c","o">>} :
                SearchWord(blob, word)
    THEN Str(<<"N","o","r","t","h"," ","A","m","e","r","i","c","a">>)
    ELSE Null


\* (mutant) without a page the result carries no country at all
EnrichWithoutGuess(firm_name, location, h1, h2) ==
    LET html == IF NoContent(h1) THEN h2 ELSE h1
    IN  IF NoContent(html)
        THEN [k \in {"website", "headquarters", "country", "description",
                     "operating_regions", "linkedin_url"} |->
                IF k = "linkedin_url" THEN List(<<>>) ELSE Null]
        ELSE [k \in {"website", "headquarters", "country", "description",
                     "operating_regions", "linkedin_url"} |-> Null]

\* enrich_with_duckduckgo(firm_name, location), given what the fetches return
enrich_with_duckduckgo(firm_name, location, h1, h2) ==
    LET html == IF NoContent(h1) THEN h2 ELSE h1
        first_url == IF Truthy(html.first_url) THEN html.first_url.s ELSE <<>>
    IN  [k \in {"website", "headquarters", "country", "description",
                "operating_regions", "linkedin_url"} |->
            IF NoContent(html)
            THEN CASE k = "country" -> guess_country_from_location(location)
                   [] k = "linkedin_url" -> List(<<>>)
                   [] OTHER -> Null
            ELSE CASE k = "website" ->
                        IF first_url # <<>> /\ ~DenyListed(first_url)
                        THEN Str(first_url) ELSE Null
                   [] k = "linkedin_url" ->
                        IF html.linkedin THEN List(<<"company_page">>) ELSE List(<<>>)
                   [] k = "description" ->
                        IF html.blob # <<>>
                        THEN Str(SubSeq(html.blob, 1, Min(500, Len(html.blob))))
                        ELSE Null
                   [] k = "headquarters" -> Headquarters(html.blob)
                   [] k = "operating_regions" -> OperatingRegions(html.blob)
                   [] OTHER -> guess_country_from_location(location)]

----------------------------------------------------------------------------
(* enrich_batch_with_duckduckgo, one record at a time *)

\* firms as the parse stage leaves them
DdgFirms ==
    {Str(<<"A","c","m","e",","," ","T","X">>), Str(<<"A","&","B",","," ","P","a","r","i","s",","," ","F","r","a","n","c","e">>), Str(<<"G","a","m","m","a",","," ","R","i","o",","," ","U","S","A">>)}

\* records as the location stage leaves them, one of them without a firm
DdgInputs ==
    {add_location_field(<<[k \in {"firm"} |-> f]>>)[1] : f \in DdgFirms}
        \cup {add_location_field(<<EmptyDict>>)[1]}

\* what a fetch can return
Htmls ==
    {NoHtml, EmptyHtml,
     Page(Str(<<"h","t","t","p","s",":","/","/","f",".","c","o">>), <<"B","a","s","e","d"," ","i","n"," ","R","i","o",","," ","T","X","."," ","G","l","o","b","a","l">>, FALSE),
     Page(Str(<<"h","t","t","p","s",":","/","/","l","i","n","k","e","d","i","n",".","c","o","m","/","c","o","m","p","a","n","y","/","f">>), <<>>, TRUE)}

\* str(rec.get("firm", "")).strip()
FirmNameOf(rec) == IF "firm" \in DOMAIN rec THEN Strip(PyStr(rec["firm"])) ELSE <<>>

InitDdg ==
    /\ pc = "ddg_call"
    /\ records \in ListsOver(DdgInputs, MaxRecords)
    /\ pre = records
    /\ idx = 0
    /\ fetches = <<>>
    /\ tables = <<>>
    /\ trace = <<>>
    /\ LlmIdle /\ ParseIdle /\ NormIdle
    /\ calls = <<>>
    /\ ScorerIdle

\* lines 156-161: entry, empty list
DdgCall ==
    /\ pc = "ddg_call"
    /\ pc' = IF Len(records) = 0 THEN "ddg_returned" ELSE "ddg_loop"
    /\ UNCHANGED <<records, pre, client, batch_size, start, resp, value, result, df,
                   normalized, idx, fetches, tables, trace>>
    /\ UNCHANGED <<calls, scorer>>

\* lines 165-171: one record, whatever the two fetches return.  (The chunk
\* loop and the record loop together visit idx = 0, 1, ... in order.)
DdgRecord ==
    /\ pc = "ddg_loop"
    /\ idx < Len(records)
    /\ \E h1 \in Htmls : \E h2 \in (IF NoContent(h1) THEN Htmls ELSE {NoHtml}) :
        LET rec == records[idx + 1]
            firm_name == FirmNameOf(rec)
            ddg == enrich_with_duckduckgo(firm_name, Get(rec, "location"), h1, h2)
            made == Fetches(firm_name, h1, h2)
        IN  /\ records' = [records EXCEPT ![idx + 1] = Update(rec, ddg)]
            /\ fetches' = fetches \o
                    [i \in 1..Len(made) |->
                        [call |-> idx + 1, query |-> made[i].query, html |-> made[i].html]]
    /\ idx' = idx + 1
    /\ UNCHANGED <<pc, pre, client, batch_size, start, resp, value, result, df,
                   normalized, tables, trace>>
    /\ UNCHANGED <<calls, scorer>>

\* lines 174-175: every record has been visited
DdgReturn ==
    /\ pc = "ddg_loop"
    /\ idx >= Len(records)
    /\ pc' = "ddg_returned"
    /\ UNCHANGED <<records, pre, client, batch_size, start, resp, value, result, df,
                   normalized, idx, fetches, tables, trace>>
    /\ UNCHANGED <<calls, scorer>>

NextDdg == DdgCall \/ DdgRecord \/ DdgReturn

SpecDdg == InitDdg /\ [][NextDdg]_vars

\* the fetches of the call of enrich_with_duckduckgo for record j, in order
FetchesOf(j) == SelectSeq(fetches, LAMBDA f : f.call = j)

\* C20: a call of enrich_with_duckduckgo fetches at most twice: first the
\* query "<firm> company"; then the query "<firm>", if and only if the first
\* fetch returned nothing; never a third time.
C20_AtMostTwoFetches ==
    /\ \A i \in 1..Len(fetches) : fetches[i].call \in 1..idx
    /\ \A j \in 1..idx :
        LET mine == FetchesOf(j)
            firm_name == FirmNameOf(pre[j])
        IN  /\ Len(mine) \in {1, 2}
            /\ mine[1].query = quote_plus(firm_name \o <<" ","c","o","m","p","a","n","y">>)
            /\ Len(mine) = 2 <=> mine[1].html.t \in {"none", "empty"}
            /\ Len(mine) = 2 => mine[2].query = quote_plus(firm_name)

\* one call fetched once and got a page; another fetched twice, its first
\* fetch failing and its second returning a page
C20_Witness ==
    /\ pc = "ddg_returned"
    /\ \E j \in 1..idx : Len(FetchesOf(j)) = 1 /\ FetchesOf(j)[1].html.t = "page"
    /\ \E j \in 1..idx :
        /\ Len(FetchesOf(j)) = 2
        /\ FetchesOf(j)[1].html = NoHtml
        /\ FetchesOf(j)[2].html.t = "page"
        /\ FetchesOf(j)[2].query = <<"A","%","2","6","B","%","2","C","+","P","a","r","i","s","%","2","C","+","F","r","a","n","c","e">>


\* the keys enrich_with_duckduckgo returns
DdgKeys ==
    {"website", "headquarters", "country", "description", "operating_regions",
     "linkedin_url"}

\* both fetches of the call for record j returned nothing
BothFetchesFailed(j) ==
    Len(FetchesOf(j)) = 2 /\ \A i \in 1..2 : NoContent(FetchesOf(j)[i].html)

\* C21: a record whose fetches fail never aborts the batch: the records are
\* enriched once each, in input order; a record whose two fetches fail gets
\* null website, headquarters, description and operating_regions, an empty
\* linkedin_url and the country guessed from its location; the list keeps
\* its length and its order.
C21_FailureNeverAborts ==
    /\ pc \in {"ddg_call", "ddg_loop", "ddg_returned"}
    /\ Len(records) = Len(pre)
    /\ pc = "ddg_returned" => idx = Len(pre)
    /\ \A i \in 1..Len(fetches) : \A j \in 1..Len(fetches) :
            i <= j => fetches[i].call <= fetches[j].call
    /\ \A j \in 1..Len(records) :
        IF j > idx THEN records[j] = pre[j]
        ELSE /\ FetchesOf(j) # <<>>
             /\ DOMAIN records[j] = DOMAIN pre[j] \cup DdgKeys
             /\ \A k \in DOMAIN pre[j] \ DdgKeys : records[j][k] = pre[j][k]
             /\ BothFetchesFailed(j) =>
                    \A k \in DdgKeys :
                        records[j][k] =
                            CASE k = "linkedin_url" -> List(<<>>)
                              [] k = "country" ->
                                    guess_country_from_location(Get(pre[j], "location"))
                              [] OTHER -> Null

\* the batch has returned: the fetches of its first record both failed and
\* the record carries the country guessed from its location, and its second
\* record was enriched from a page
C21_Witness ==
    /\ pc = "ddg_returned"
    /\ Len(records) = 2
    /\ BothFetchesFailed(1)
    /\ records[1]["country"] = Str(<<"F","r","a","n","c","e">>)
    /\ records[1]["website"] = Null
    /\ ~BothFetchesFailed(2)
    /\ records[2]["website"] # Null

----------------------------------------------------------------------------
(* pdf_parser.py: extract_tables and parse_enr_pdf *)
(* A table of pdfplumber is the sequence of its rows, a row the sequence   *)
(* of its cells.  The tables of one PDF have the same width.               *)

\* lines 50-63: the tables of more than 5 rows (an exception inside the with
\* block keeps the tables collected before it)
extract_tables(found) == SelectSeq(found, LAMBDA t : Len(t) > 5)

\* " ".join(df.astype(str).values.flatten()): the cells row by row, joined
\* one row at a time
RECURSIVE FlatText(_)
FlatText(rows) ==
    IF rows = <<>> THEN <<>>
    ELSE IF Len(rows) = 1 THEN JoinCells(rows[1])
    ELSE JoinCells(rows[1]) \o <<" ">> \o FlatText(Tail(rows))

\* lines 162-171: the table shows an indicator and has more than 10 rows
LooksLikeEnrTable(t) ==
    LET flat_text == Lower(FlatText(t))
        has_firm == Contains(flat_text, w_firm)
        has_revenue == Contains(flat_text, w_revenue) \/ Contains(flat_text, <<"m","i","l">>)
        has_rank == \/ Contains(flat_text, w_rank)
                    \/ Contains(flat_text, <<"2","0","2","5">>)
                    \/ Contains(flat_text, <<"2","0","2","4">>)
        has_companies == \E word \in {<<"a","e","c","o","m">>, <<"j","a","c","o","b","s">>, <<"f","l","u","o","r">>, <<"d","a","l","l","a","s">>, <<"t","e","x","a","s">>} :
                            Contains(flat_text, word)
        has_data_rows == Len(t) > 10
    IN  (has_firm \/ has_companies \/ has_rank \/ has_revenue) /\ has_data_rows

\* (mutant) the fallback takes every extracted table, whatever its size
EnrTablesOfAnySize(dfs) ==
    IF SelectSeq(dfs, LooksLikeEnrTable) # <<>>
    THEN SelectSeq(dfs, LooksLikeEnrTable)
    ELSE dfs

\* lines 159-187: the tables that look like the ENR table or, when there is
\* none, every table of more than 10 rows
EnrTables(dfs) ==
    IF SelectSeq(dfs, LooksLikeEnrTable) # <<>>
    THEN SelectSeq(dfs, LooksLikeEnrTable)
    ELSE SelectSeq(dfs, LAMBDA t : Len(t) > 10)

\* lines 192-200: the first table with a header row among its first three
\* rows (1-based), 0 for none
HeaderTableOf(enr_tables) ==
    LET hits == {i \in 1..Len(enr_tables) : HeaderRowOf(enr_tables[i]) # 0}
    IN  IF hits = {} THEN 0 ELSE CHOOSE i \in hits : \A j \in hits : i <= j

\* lines 203-220: the rows after the header of the header table, and the
\* rows of every other table that do not look like a header
RECURSIVE CombinedRows(_, _, _)
CombinedRows(enr_tables, header_table, i) ==
    IF i > Len(enr_tables) THEN <<>>
    ELSE (IF i = header_table
          THEN SubSeq(enr_tables[i], HeaderRowOf(enr_tables[i]) + 1, Len(enr_tables[i]))
          ELSE SelectSeq(enr_tables[i], LAMBDA row : ~LooksLikeHeader(row)))
         \o CombinedRows(enr_tables, header_table, i + 1)

\* lines 226-237: the master table and its column labels
MasterTable(enr_tables) ==
    LET header_table == HeaderTableOf(enr_tables)
        combined_rows == CombinedRows(enr_tables, header_table, 1)
        width == Len(combined_rows[1])
        first_row_text == Lower(JoinCells(combined_rows[1]))
    IN  IF header_table # 0
        THEN [columns |-> SubSeq(enr_tables[header_table][HeaderRowOf(enr_tables[header_table])],
                                 1, width),
              rows |-> combined_rows]
        ELSE IF Contains(first_row_text, w_firm) \/ Contains(first_row_text, w_revenue)
        THEN [columns |-> combined_rows[1], rows |-> Tail(combined_rows)]
        ELSE [columns |-> RangeIndex(width), rows |-> combined_rows]

\* the exception parse_enr_pdf leaves by, "" when it returns: RuntimeError
\* at lines 62, 185-187 and 223, or what normalize_enr_table raises
parse_raises(found) ==
    LET dfs == extract_tables(found)
        enr_tables == EnrTables(dfs)
    IN  IF dfs = <<>> THEN "No tables found in PDF."
        ELSE IF enr_tables = <<>> THEN "Could not find ENR table."
        ELSE IF CombinedRows(enr_tables, HeaderTableOf(enr_tables), 1) = <<>>
        THEN "No data rows found in tables."
        ELSE IF normalize_raises(MasterTable(enr_tables)) THEN "normalize_enr_table"
        ELSE ""

\* the keys of the records: the clean column names as dict keys
clean_keys ==
    <<"enr_rank_2025", "enr_rank_2024", "firm", "total_revenue_m",
      "int_total_revenue_m", "new_contracts", "general_building_pct",
      "manufacturing_pct", "power_pct", "water_supply_pct", "sewer_waste_pct",
      "industrial_oilgas_pct", "transportation_pct", "hazardous_waste_pct",
      "telecom_pct">>

\* line 148: df.to_dict(orient="records"), for a frame that carries clean
\* names (every frame of the model that normalize_enr_table returns: no
\* header cell of the model is the text "firm")
KeyOf(label) == clean_keys[CHOOSE c \in 1..Len(clean_cols) : clean_cols[c] = label.s]

enr_table_to_dicts(frame) ==
    [r \in 1..Len(frame.rows) |->
        [k \in {KeyOf(frame.columns[c]) : c \in 1..Len(frame.columns)} |->
            frame.rows[r][CHOOSE c \in 1..Len(frame.columns) : KeyOf(frame.columns[c]) = k]]]

\* lines 152-243, when no exception is raised
parse_enr_pdf(found) ==
    enr_table_to_dicts(normalize_enr_table(MasterTable(EnrTables(extract_tables(found)))))

----------------------------------------------------------------------------
(* parse_enr_pdf on the tables of a PDF *)

MaxTables == 2

\* the row counts on each side of the tests of lines 57 and 168
RowCounts == {3, 6, 11}

\* the data rows of the source table: two firms, then rows whose firm cell
\* holds a dagger only
PdfRow(i, width) ==
    [c \in 1..width |->
        CASE c <= 2 -> Str(IntDigits(i))
          [] c = 3 -> IF i = 1 THEN Str(<<"A","c","m","e"," ","C","o",","," ","S","p","r","i","n","g","f","i","e","l","d">>)
                      ELSE IF i = 2 THEN Str(<<"B","e","t","a"," ","L","L","C">>)
                      ELSE Str(<<Dagger>>)
          [] c = 4 -> IF i = 1 THEN Str(<<"1","0","0",".","0">>)
                      ELSE IF i = 2 THEN Str(<<"5","0",".","5">>)
                      ELSE Str(<<"1",",","2","0","4",".","5">>)
          [] c = 5 -> IF i = 1 THEN Str(<<"1","0",".","0">>)
                      ELSE IF i = 2 THEN Str(<<"-">>)
                      ELSE Str(<<EmDash>>)
          [] OTHER -> Str(<<"0">>)]

\* a table of n rows: the header row first, or data rows only
PdfTable(width, n, header) ==
    [r \in 1..n |->
        IF header THEN (IF r = 1 THEN HeaderRow(width) ELSE PdfRow(r - 1, width))
        ELSE PdfRow(r, width)]

\* the PDFs: at most k tables of one width
Pdfs(k) ==
    UNION {ListsOver({PdfTable(width, n, header) : n \in RowCounts, header \in BOOLEAN}, k) :
           width \in {5, 15}}

RaisedWith(message) == [t |-> "raise", s |-> <<message>>, n |-> 0, e |-> 0]

InitPdf ==
    /\ pc = "pdf_call"
    /\ tables \in Pdfs(MaxTables)
    /\ idx = 0
    /\ fetches = <<>>
    /\ trace = <<>>
    /\ RecordsIdle /\ LlmIdle /\ ParseIdle /\ NormIdle
    /\ calls = <<>>
    /\ ScorerIdle

\* parse_enr_pdf returns
ParsePdf ==
    /\ pc = "pdf_call"
    /\ parse_raises(tables) = ""
    /\ records' = parse_enr_pdf(tables)
    /\ pc' = "pdf_returned"
    /\ UNCHANGED <<pre, client, batch_size, start, resp, value, result, df, normalized>>
    /\ UNCHANGED outside
    /\ UNCHANGED calls

\* parse_enr_pdf raises
ParsePdfRaises ==
    /\ pc = "pdf_call"
    /\ parse_raises(tables) # ""
    /\ result' = RaisedWith(parse_raises(tables))
    /\ pc' = "pdf_raised"
    /\ UNCHANGED <<records, pre, client, batch_size, start, resp, value, df, normalized>>
    /\ UNCHANGED outside
    /\ UNCHANGED calls

NextPdf == ParsePdf \/ ParsePdfRaises

SpecPdf == InitPdf /\ [][NextPdf]_vars

\* a block shows an indicator of the target table
ShowsIndicator(t) ==
    \E r \in 1..Len(t) : \E c \in 1..Len(t[r]) :
        \E word \in {w_firm, w_rank, w_revenue} : Occurs(word, Lower(PyStr(t[r][c])))

----------------------------------------------------------------------------
(* main.py: the pipeline *)

\* line 61: the batch_size main passes to enrich_batch_with_llm
LlmBatchSize == 10

\* lines 48-63: what the try block does, in program order
Stages == <<"parse", "location", "search", "model">>

Snapshots ==
    <<"step1_raw_records.json", "step2_records_with_loc.json",
      "step3_records_after_ddg.json", "step4_records_after_llm_scoring.json">>

StagePc == <<"main_parse", "main_location", "main_search", "main_model">>

SnapshotPc == <<"main_snapshot1", "main_snapshot2", "main_snapshot3", "main_snapshot4">>

\* (mutant) an exception of the parse stage is logged and the run goes on
HandlerResuming(at) == IF at = "main_parse" THEN "main_snapshot1" ELSE "main_exit_1"

\* lines 100-102: where an exception raised at `at` inside the try block
\* leaves the process: logger.exception, then sys.exit(1)
Handler(at) == "main_exit_1"

\* duckduckgo_enricher.py lines 162-171 over the records from position i on
\* (1-based), every first fetch of the run answered by h1 and every second
\* by h2; made is the log of the fetches
RECURSIVE enrich_batch_with_duckduckgo(_, _, _, _)
enrich_batch_with_duckduckgo(rs, i, h1, h2) ==
    IF i > Len(rs) THEN [recs |-> rs, made |-> <<>>]
    ELSE LET rec == rs[i]
             firm_name == FirmNameOf(rec)
             ddg == enrich_with_duckduckgo(firm_name, Get(rec, "location"), h1, h2)
             made == Fetches(firm_name, h1, h2)
             rest == enrich_batch_with_duckduckgo([rs EXCEPT ![i] = Update(rec, ddg)],
                                                 i + 1, h1, h2)
         IN  [recs |-> rest.recs,
              made |-> [j \in 1..Len(made) |->
                            [call |-> i, query |-> made[j].query, html |-> made[j].html]]
                       \o rest.made]

\* the answers of the model backend in a run of main: every chunk call of
\* the run is answered in the same way
AnswerShapes == {"raise", "norecords", "partial", "numeric", "extra"}

Answer(shape, at, n) ==
    CASE shape \in {"raise", "norecords"} ->
            [kind |-> shape, items |-> <<>>, at |-> at, n |-> n]
      [] shape = "partial" ->
            [kind |-> "list", items |-> [i \in 1..n |-> ItemPartial], at |-> at, n |-> n]
      [] shape = "numeric" ->
            [kind |-> "list", items |-> [i \in 1..n |-> ItemNumericDescription],
             at |-> at, n |-> n]
      [] OTHER ->
            [kind |-> "list", items |-> [i \in 1..(n + 1) |-> ItemPartial],
             at |-> at, n |-> n]

\* llm_enricher.py lines 114-151: the chunk loop from `at` on (0-based)
RECURSIVE ChunkLoop(_, _, _, _)
ChunkLoop(rs, at, size, shape) ==
    IF at >= Len(rs) THEN [recs |-> rs, exc |-> FALSE]
    ELSE LET out == ProcessChunk(rs, Answer(shape, at, Min(at + size, Len(rs)) - at))
         IN  IF out.exc THEN out ELSE ChunkLoop(out.recs, at + size, size, shape)


\* the model calls the chunk loop makes from `at` on
RECURSIVE ChunkCalls(_, _, _, _)
ChunkCalls(rs, at, size, shape) ==
    IF at >= Len(rs) THEN <<>>
    ELSE LET r == Answer(shape, at, Min(at + size, Len(rs)) - at)
             out == ProcessChunk(rs, r)
         IN  <<[at |-> r.at, n |-> r.n, kind |-> r.kind]>>
                \o (IF out.exc THEN <<>> ELSE ChunkCalls(out.recs, at + size, size, shape))

\* llm_enricher.py lines 94-151
enrich_batch_with_llm(rs, has_client, size, shape) ==
    IF Len(rs) = 0 THEN [recs |-> rs, exc |-> FALSE]
    ELSE IF ~has_client THEN ScoreOnly(rs, 1, Len(rs))
    ELSE ChunkLoop(rs, 0, size, shape)

InitMain ==
    /\ pc = "main_import"
    /\ tables \in Pdfs(MaxTables)
    /\ idx = 0
    /\ fetches = <<>>
    /\ trace = <<>>
    /\ RecordsIdle /\ LlmIdle /\ ParseIdle /\ NormIdle
    /\ calls = <<>>
    /\ ScorerIdle

\* lines 8-21: the imports; src/ holds no module `scoring`, so line 19
\* raises ModuleNotFoundError unless the environment provides one
MainImport ==
    /\ pc = "main_import"
    /\ \E importable \in BOOLEAN :
        pc' = IF importable THEN "main_file" ELSE "main_exit_1"
    /\ UNCHANGED <<records, pre, client, batch_size, start, resp, value, result, df,
                   normalized, idx, fetches, tables, trace>>
    /\ UNCHANGED <<calls, scorer>>

\* lines 34-39: the PDF is in the input folder, or sys.exit(1)
MainFile ==
    /\ pc = "main_file"
    /\ \E exists \in BOOLEAN :
        pc' = IF exists THEN "main_parse" ELSE "main_exit_1"
    /\ UNCHANGED <<records, pre, client, batch_size, start, resp, value, result, df,
                   normalized, idx, fetches, tables, trace>>
    /\ UNCHANGED <<calls, scorer>>

\* line 48: parse_enr_pdf returns
MainParse ==
    /\ pc = "main_parse"
    /\ parse_raises(tables) = ""
    /\ records' = parse_enr_pdf(tables)
    /\ trace' = Append(trace, Stages[1])
    /\ pc' = SnapshotPc[1]
    /\ UNCHANGED <<pre, client, batch_size, start, resp, value, result, df,
                   normalized, idx, fetches, tables>>
    /\ UNCHANGED <<calls, scorer>>

\* line 48: parse_enr_pdf raises; lines 100-102
MainParseRaises ==
    /\ pc = "main_parse"
    /\ parse_raises(tables) # ""
    /\ trace' = Append(trace, "error")
    /\ pc' = Handler(pc)
    /\ UNCHANGED <<records, pre, client, batch_size, start, resp, value, result, df,
                   normalized, idx, fetches, tables>>
    /\ UNCHANGED <<calls, scorer>>

\* lines 50, 54, 59, 63: save_stage_snapshot writes the file, or raises
\* (the output folder cannot be made or written)
MainSnapshot ==
    /\ \E k \in 1..4 :
        /\ pc = SnapshotPc[k]
        /\ \E written \in BOOLEAN :
            IF written
            THEN /\ trace' = Append(trace, Snapshots[k])
                 /\ pc' = IF k < 4 THEN StagePc[k + 1] ELSE "main_report"
            ELSE /\ trace' = Append(trace, "error")
                 /\ pc' = Handler(pc)
    /\ UNCHANGED <<records, pre, client, batch_size, start, resp, value, result, df,
                   normalized, idx, fetches, tables>>
    /\ UNCHANGED <<calls, scorer>>

\* line 52
MainLocation ==
    /\ pc = "main_location"
    /\ records' = add_location_field(records)
    /\ trace' = Append(trace, Stages[2])
    /\ pc' = SnapshotPc[2]
    /\ UNCHANGED <<pre, client, batch_size, start, resp, value, result, df,
                   normalized, idx, fetches, tables>>
    /\ UNCHANGED <<calls, scorer>>

\* line 57: the search stage; _fetch_html catches what a fetch raises
MainSearch ==
    /\ pc = "main_search"
    /\ \E h1 \in Htmls : \E h2 \in (IF NoContent(h1) THEN Htmls ELSE {NoHtml}) :
        LET out == enrich_batch_with_duckduckgo(records, 1, h1, h2)
        IN  /\ records' = out.recs
            /\ fetches' = out.made
    /\ idx' = Len(records)
    /\ trace' = Append(trace, Stages[3])
    /\ pc' = SnapshotPc[3]
    /\ UNCHANGED <<pre, client, batch_size, start, resp, value, result, df,
                   normalized, tables>>
    /\ UNCHANGED <<calls, scorer>>

\* line 61: the model stage returns, or raises out of score_record
MainModel ==
    /\ pc = "main_model"
    /\ \E has_client \in BOOLEAN :
       \E shape \in (IF has_client THEN AnswerShapes ELSE {"raise"}) :
        LET out == enrich_batch_with_llm(records, has_client, LlmBatchSize, shape)
        IN  /\ records' = out.recs
            /\ client' = has_client
            /\ calls' = calls \o (IF has_client
                                   THEN ChunkCalls(records, 0, LlmBatchSize, shape)
                                   ELSE <<>>)
            /\ trace' = Append(trace, IF out.exc THEN "error" ELSE Stages[4])
            /\ pc' = IF out.exc THEN Handler(pc) ELSE SnapshotPc[4]
    /\ batch_size' = LlmBatchSize
    /\ UNCHANGED <<pre, start, resp, value, result, df, normalized, idx, fetches, tables>>
    /\ UNCHANGED scorer

\* lines 65-98: the table, the CSV and the JSON file are written, or one of
\* them raises
MainReport ==
    /\ pc = "main_report"
    /\ \E done \in BOOLEAN :
        IF done
        THEN pc' = "main_exit_0" /\ UNCHANGED trace
        ELSE pc' = Handler(pc) /\ trace' = Append(trace, "error")
    /\ UNCHANGED <<records, pre, client, batch_size, start, resp, value, result, df,
                   normalized, idx, fetches, tables>>
    /\ UNCHANGED <<calls, scorer>>

NextMain ==
    \/ MainImport \/ MainFile \/ MainParse \/ MainParseRaises \/ MainSnapshot
    \/ MainLocation \/ MainSearch \/ MainModel \/ MainReport

SpecMain == InitMain /\ [][NextMain]_vars

\* what a run that nothing interrupts leaves behind
Program ==
    <<Stages[1], Snapshots[1], Stages[2], Snapshots[2],
      Stages[3], Snapshots[3], Stages[4], Snapshots[4]>>

\* the stages and snapshots of the trace, without the logged error
Done == SelectSeq(trace, LAMBDA ev : ev # "error")

\* C13: the stages run in the order parse, location, search, model, the
\* snapshot of each stage is written after the stage and before the next
\* one, and when the parse stage raises no stage runs after it, no snapshot
\* is written and the process exits with a non-zero status.  (An error
\* logged before any stage is done is the parse stage raising.)
C13_StageOrder ==
    /\ \E n \in 0..Len(Program) : Done = SubSeq(Program, 1, n)
    /\ \A i \in 1..Len(trace) : trace[i] = "error" => i = Len(trace)
    /\ (trace # <<>> /\ trace[Len(trace)] = "error") => pc = "main_exit_1"
    /\ (trace # <<>> /\ trace[1] = "error") =>
            Done = <<>> /\ records = <<>> /\ pc = "main_exit_1"

\* a run has gone through the four stages and the four snapshots and exited
\* with status 0, its records scored
C13_Witness ==
    /\ pc = "main_exit_0"
    /\ trace = Program
    /\ Len(records) >= 2
    /\ \A i \in 1..Len(records) : "lead_score" \in DOMAIN records[i]

\* the table of the example: the header row and the two data rows
SyntheticTable == PdfTable(5, 3, TRUE)

\* the records the example expects, on the fields it names
ExpectedRecords ==
    << [firm |-> Str(<<"A","c","m","e"," ","C","o">>),
        location |-> Str(<<"S","p","r","i","n","g","f","i","e","l","d">>),
        total_revenue_m |-> Float(100, 0),
        int_total_revenue_m |-> Float(10, 0)],
       [firm |-> Str(<<"B","e","t","a"," ","L","L","C">>),
        location |-> Null,
        total_revenue_m |-> Float(505, 1),
        int_total_revenue_m |-> Null] >>

\* C11 (as claimed): given the one table of the example, the parse stage
\* followed by the location stage yields exactly two records: "Acme Co" at
\* "Springfield" with revenues 100.0 and 10.0, and "Beta LLC" without a
\* location, with revenue 50.5 and no international revenue.
C11_EndToEnd ==
    (tables = <<SyntheticTable>> /\ trace # <<>>) =>
        /\ trace[1] = Stages[1]
        /\ Len(trace) >= 3 =>
            /\ Len(records) = 2
            /\ \A i \in 1..2 : \A k \in DOMAIN ExpectedRecords[i] :
                Get(records[i], k) = ExpectedRecords[i][k]

----------------------------------------------------------------------------
(* The model calls of enrich_batch_with_llm *)

\* ceil(n / b)
CeilDiv(n, b) == (n + b - 1) \div b

\* C22: with a client, enrich_batch_with_llm over n > 0 records with batch
\* size b makes exactly ceil(n / b) model calls, one per chunk, in input
\* order: call k is made for the records (k-1)*b+1 .. min(k*b, n); a chunk
\* whose call fails is not called again and the later chunks are still
\* called.
C22_OneCallPerChunk ==
    (client /\ Len(pre) > 0 /\ pc \in {"llm_returned", "llm_raised"}) =>
        /\ Len(calls) = CeilDiv(Len(pre), batch_size)
        /\ \A k \in 1..Len(calls) :
            /\ calls[k].at = (k - 1) * batch_size
            /\ calls[k].n = Min(batch_size, Len(pre) - (k - 1) * batch_size)


MergedResponse == RightLengthList /\ \A i \in 1..resp.n : Mergeable(i)

\* C28: item i of a successful response is merged only into record i of the
\* chunk; for each target field a key present in the item replaces the
\* record's value, even by null over a value of the search stage, and a key
\* absent from the item leaves the record's pre-call value; keys outside the
\* target fields are neither taken from the model nor changed (the score
\* keys are set by score_record).
C28_MergeSemantics ==
    MergedResponse =>
        /\ \A i \in 1..resp.n :
            LET p == resp.at + i
                item == resp.items[i].f
            IN  /\ DOMAIN records[p] = DOMAIN pre[p] \cup TargetSet \cup ScoreKeys
                /\ \A k \in TargetSet :
                    records[p][k] = IF k \in DOMAIN item THEN item[k] ELSE Get(pre[p], k)
                /\ \A k \in DOMAIN pre[p] \ (TargetSet \cup ScoreKeys) :
                    records[p][k] = pre[p][k]
        /\ \A p \in (resp.at + resp.n + 1)..Len(records) : records[p] = pre[p]

\* a null description of the model has replaced the description the search
\* stage had found, the headquarters the model did not name has stayed, and
\* another item's firm and confidence keys were not taken
C28_Witness ==
    /\ MergedResponse
    /\ resp.n = 2
    /\ resp.items[1] = ItemPartial
    /\ pre[resp.at + 1]["description"] # Null
    /\ records[resp.at + 1]["description"] = Null
    /\ records[resp.at + 1]["headquarters"] = pre[resp.at + 1]["headquarters"]
    /\ pre[resp.at + 1]["headquarters"] # Null
    /\ "confidence" \in DOMAIN resp.items[2].f
    /\ resp.items[2].f["firm"] # pre[resp.at + 2]["firm"]
    /\ records[resp.at + 2]["firm"] = pre[resp.at + 2]["firm"]
    /\ "confidence" \notin DOMAIN records[resp.at + 2]

----------------------------------------------------------------------------
(* llm_enricher.py: enrich_with_llm *)

\* what the model backend can answer to the call of enrich_with_llm:
\* kinds "raise", "notjson", "empty" and "notobject" as for a chunk call,
\* and "object": the content is the JSON object items[1]
EnrichResponses ==
    {[kind |-> kd, items |-> <<>>, at |-> 0, n |-> 1] :
        kd \in {"raise", "notjson", "empty", "notobject"}}
    \cup
    {[kind |-> "object", items |-> <<it>>, at |-> 0, n |-> 1] :
        it \in {ItemFor(1), ItemPartial, [obj |-> TRUE, f |-> EmptyDict]}}

\* (mutant) the parsed object is returned with all its keys
EnrichKeepingModelKeys(ddg_enrichment, has_client, r) ==
    IF ~has_client \/ r.kind \in {"raise", "notjson", "notobject"}
    THEN [k \in TargetSet |-> Get(ddg_enrichment, k)]
    ELSE IF r.kind = "empty" THEN [k \in TargetSet |-> Null]
    ELSE Update([k \in TargetSet |-> Null], r.items[1].f)

\* lines 55-91: without a client the search enricher's fields (56-60); with
\* one, the target fields of the parsed object, "{}" standing for an empty
\* content (82-87); the search enricher's fields when the call, json.loads
\* or parsed.get raises (88-91)
enrich_with_llm(ddg_enrichment, has_client, r) ==
    IF ~has_client \/ r.kind \in {"raise", "notjson", "notobject"}
    THEN [k \in TargetSet |-> Get(ddg_enrichment, k)]
    ELSE LET parsed == IF r.kind = "empty" THEN EmptyDict ELSE r.items[1].f
         IN  [k \in TargetSet |-> Get(parsed, k)]

\* what enrich_with_duckduckgo can have returned: each of its keys found or
\* not
DdgEnrichments ==
    {[k \in DdgKeys |-> IF k \in found THEN DdgFound(1)[k] ELSE DdgEmpty[k]] :
        found \in SUBSET DdgKeys}

InitEnrich ==
    /\ pc = "enrich_call"
    /\ value \in DdgEnrichments
    /\ result = Null
    /\ client \in BOOLEAN
    /\ batch_size = 1 /\ start = 0 /\ resp = NoResponse
    /\ calls = <<>>
    /\ RecordsIdle /\ NormIdle /\ OutsideIdle

\* lines 55-60: no client, no call
EnrichNoClient ==
    /\ pc = "enrich_call"
    /\ ~client
    /\ result' = enrich_with_llm(value, FALSE, NoResponse)
    /\ pc' = "enrich_returned"
    /\ UNCHANGED <<records, pre, client, batch_size, start, resp, value, df, normalized>>
    /\ UNCHANGED outside
    /\ UNCHANGED calls

\* lines 62-91: one call, whatever the backend answers
EnrichCall ==
    /\ pc = "enrich_call"
    /\ client
    /\ \E r \in EnrichResponses :
        /\ resp' = r
        /\ calls' = Append(calls, [at |-> r.at, n |-> r.n, kind |-> r.kind])
        /\ result' = enrich_with_llm(value, TRUE, r)
    /\ pc' = "enrich_returned"
    /\ UNCHANGED <<records, pre, client, batch_size, start, value, df, normalized>>
    /\ UNCHANGED outside

NextEnrich == EnrichNoClient \/ EnrichCall

SpecEnrich == InitEnrich /\ [][NextEnrich]_vars

----------------------------------------------------------------------------
(* enrich_with_duckduckgo on one firm: the website and the country *)

\* locations: a place, or none, in front of a last token, which may run on
LocationHeads == {<<>>,
                 <<"R","i","o",","," ">>,
                 <<"R","i","o",",">>,
                 <<"R","i","o"," ">>}

LocationTokens ==
    {<<"U","S","A">>,
     <<"u","s","a">>,
     <<"U","n","i","t","e","d"," ","S","t","a","t","e","s">>,
     <<"U",".","S",".">>,
     <<"U","S">>,
     <<"C","a","n","a","d","a">>,
     <<"U","K">>,
     <<"E","n","g","l","a","n","d">>,
     <<"N","e","w"," ","S","o","u","t","h"," ","W","a","l","e","s">>,
     <<"I","n","d","i","a">>,
     <<"I","n","d","i","a","n","a">>,
     <<"F","r","a","n","c","e">>,
     <<"T","X">>,
     <<"U","k","r","a","i","n","e">>,
     <<>>}

LocationTails == {<<>>,
                 <<"n">>}

Locations ==
    {Null} \cup {Str(h \o t \o e) : h \in LocationHeads, t \in LocationTokens,
                                    e \in LocationTails}

\* the first result links of a page: a domain and a path
LinkDomains ==
    {<<"f",".","c","o">>,
     <<"l","i","n","k","e","d","i","n",".","c","o","m">>,
     <<"e","n",".","w","i","k","i","p","e","d","i","a",".","o","r","g">>,
     <<"I","n","d","e","e","d",".","c","o","m">>,
     <<"g","l","a","s","s","d","o","o","r",".","c","o",".","u","k">>,
     <<"c","r","u","n","c","h","b","a","s","e",".","c","o","m">>,
     <<"b","l","o","o","m","b","e","r","g",".","c","o","m">>,
     <<"u","n","l","i","n","k","e","d",".","i","n">>}

LinkPaths == {<<>>,
             <<"/","a","b","o","u","t">>,
             <<"/","l","i","n","k","e","d","i","n">>,
             <<"/","n","e","w","s","/","b","l","o","o","m","b","e","r","g","-","a","w","a","r","d">>}

FirstLinks ==
    {Null} \cup {Str(<<"h","t","t","p","s",":","/","/">> \o d \o p) :
                    d \in LinkDomains, p \in LinkPaths}

\* what the first fetch returns: nothing, or a page with one of the links
SearchPages == {NoHtml} \cup {Page(u, <<>>, FALSE) : u \in FirstLinks}

InitSearch ==
    /\ pc = "search_call"
    /\ value \in [location : Locations, html : SearchPages]
    /\ result = Null
    /\ idx = 0 /\ fetches = <<>> /\ tables = <<>> /\ trace = <<>>
    /\ calls = <<>>
    /\ ScorerIdle
    /\ RecordsIdle /\ LlmIdle /\ NormIdle

\* enrich_with_duckduckgo("Acme", location): the first fetch returns
\* value.html, the second, when there is one, fails
EnrichWithDuckduckgo ==
    /\ pc = "search_call"
    /\ LET firm_name == <<"A","c","m","e">>
           made == Fetches(firm_name, value.html, NoHtml)
       IN  /\ result' = enrich_with_duckduckgo(firm_name, value.location, value.html, NoHtml)
           /\ fetches' = [i \in 1..Len(made) |->
                            [call |-> 1, query |-> made[i].query, html |-> made[i].html]]
    /\ pc' = "search_returned"
    /\ UNCHANGED <<records, pre, client, batch_size, start, resp, value, df, normalized,
                   idx, tables, trace>>
    /\ UNCHANGED <<calls, scorer>>

NextSearch == EnrichWithDuckduckgo

SpecSearch == InitSearch /\ [][NextSearch]_vars

\* the domain of a URL: what stands between "//" and the next "/"
DomainOf(url) ==
    LET from == CHOOSE i \in 1..Len(url) :
                    /\ i >= 3 /\ url[i - 2] = "/" /\ url[i - 1] = "/"
                    /\ \A j \in 3..(i - 1) : ~(url[j - 2] = "/" /\ url[j - 1] = "/")
        ends == {i \in from..Len(url) : url[i] = "/"}
        to == IF ends = {} THEN Len(url)
              ELSE (CHOOSE i \in ends : \A j \in ends : i <= j) - 1
    IN  SubSeq(url, from, to)

\* C25 (as claimed): the website is null or the first result link of the
\* page, and it is the first result link exactly when the link exists and
\* its domain does not match the denylist; a denylisted word elsewhere in
\* the URL does not reject the link.
C25_WebsiteByDomain ==
    pc = "search_returned" =>
        result["website"] =
            IF /\ value.html.t = "page"
               /\ value.html.first_url # Null
               /\ ~DenyListed(DomainOf(value.html.first_url.s))
            THEN value.html.first_url
            ELSE Null

\* a keyword stands in the text as a word of its own, in any case
KeywordIn(text, word) ==
    \E at \in 1..Len(text) :
        /\ MatchAt(text, at, word)
        /\ at = 1 \/ ~IsWordChar(text[at - 1])
        /\ at + Len(word) > Len(text) \/ ~IsWordChar(text[at + Len(word)])

\* the country the rules of the claim give
ClaimedCountry(location) ==
    IF ~Truthy(location) THEN Null
    ELSE IF \E word \in {<<"u","s","a">>, <<"u","n","i","t","e","d"," ","s","t","a","t","e","s">>, <<"u",".","s",".">>, <<"u","s">>} :
                KeywordIn(location.s, word)
    THEN Str(<<"U","n","i","t","e","d"," ","S","t","a","t","e","s">>)
    ELSE IF KeywordIn(location.s, <<"c","a","n","a","d","a">>) THEN Str(<<"C","a","n","a","d","a">>)
    ELSE IF \E word \in {<<"u","k">>, <<"u","n","i","t","e","d"," ","k","i","n","g","d","o","m">>, <<"e","n","g","l","a","n","d">>, <<"s","c","o","t","l","a","n","d">>, <<"w","a","l","e","s">>} :
                KeywordIn(location.s, word)
    THEN Str(<<"U","n","i","t","e","d"," ","K","i","n","g","d","o","m">>)
    ELSE IF KeywordIn(location.s, <<"i","n","d","i","a">>) THEN Str(<<"I","n","d","i","a">>)
    ELSE IF HasComma(location.s) /\ Len(TrailingToken(location.s)) > 2
    THEN Str(TrailingToken(location.s))
    ELSE Null

\* C27 (as claimed): for a null or empty location the country is null;
\* otherwise the rules United States, Canada, United Kingdom, India are
\* tried in this order by keyword in the location text, and when none
\* matches the country is the trailing comma-separated token of the
\* location when it is longer than 2 characters, else null.
C27_CountryByKeyword ==
    pc = "search_returned" => result["country"] = ClaimedCountry(value.location)

----------------------------------------------------------------------------
(* parse_enr_pdf on a table that the PDF holds in fragments *)

\* data row i of the source table: rank i, firm "F<i>"
FragmentRow(i) ==
    [c \in 1..15 |->
        CASE c <= 2 -> Str(IntDigits(i))
          [] c = 3 -> Str(<<"F">> \o IntDigits(i))
          [] OTHER -> Str(<<"7">>)]

\* a fragment of n rows: header rows at the positions hs, the data rows
\* from number first on at the other positions
Fragment(n, hs, first) ==
    [r \in 1..n |->
        IF r \in hs THEN HeaderRow(15)
        ELSE FragmentRow(first + Cardinality({q \in 1..(r - 1) : q \notin hs}))]

\* the shapes of a fragment: its number of rows and where its header rows
\* are
FragmentShapes ==
    {[n |-> 11, hs |-> hs] : hs \in {{}, {1}, {2}, {1, 3}, {1, 6}}}
        \cup {[n |-> 6, hs |-> hs] : hs \in {{}, {1}}}

\* the PDFs of the given fragment shapes, the data rows numbered through
RECURSIVE FragmentsOf(_, _)
FragmentsOf(shapes, first) ==
    IF shapes = <<>> THEN <<>>
    ELSE <<Fragment(shapes[1].n, shapes[1].hs, first)>>
            \o FragmentsOf(Tail(shapes), first + shapes[1].n - Cardinality(shapes[1].hs))

FragmentedPdfs(k) ==
    {FragmentsOf(shapes, 1) : shapes \in ListsOver(FragmentShapes, k) \ {<<>>}}

InitMerge ==
    /\ pc = "pdf_call"
    /\ tables \in FragmentedPdfs(MaxTables)
    /\ idx = 0
    /\ fetches = <<>>
    /\ trace = <<>>
    /\ calls = <<>>
    /\ ScorerIdle
    /\ RecordsIdle /\ LlmIdle /\ ParseIdle /\ NormIdle

SpecMerge == InitMerge /\ [][NextPdf]_vars

\* the rows of the tables, in source order, that do not look like a header
RECURSIVE DataRowsOf(_)
DataRowsOf(ts) ==
    IF ts = <<>> THEN <<>>
    ELSE SelectSeq(ts[1], LAMBDA row : ~LooksLikeHeader(row)) \o DataRowsOf(Tail(ts))

\* C26 (as claimed): the records are the data rows of all accepted
\* fragments, concatenated in source order: no data row is lost or
\* reordered, and no row that looks like a header becomes a record,
\* wherever the repeated header sits.
C26_FragmentsMerged ==
    pc = "pdf_returned" =>
        LET rows == DataRowsOf(EnrTables(extract_tables(tables)))
        IN  [i \in 1..Len(records) |-> records[i]["firm"]]
                = [i \in 1..Len(rows) |-> rows[i][3]]

----------------------------------------------------------------------------
(* llm_scorer.py: score_in_batches and the output file *)

BatchSize == 5

\* the leads of the source file
MaxLeads == 6

ScoreFields == {"lead_score", "completeness_score", "relevance_score"}

\* lead i of the source file, of sequence 10 * i; some leads carry the
\* lead_score of the pipeline (llm_enricher.py line 176) already
Lead(i) ==
    LET base == [k \in {"sequence", "firm"} |->
                    IF k = "sequence" THEN Num(10 * i) ELSE Str(<<"F">> \o IntDigits(i))]
    IN  IF i % 3 = 2 THEN Update(base, [k \in {"lead_score"} |-> Num(55)]) ELSE base

\* load_leads(source_path): the leads have distinct integer sequences
load_leads == [i \in 1..MaxLeads |-> Lead(i)]

\* ensure_output_file: a missing file is created holding [], and a file
\* json.load rejects is read as []
ensure_output_file(file) ==
    [file |-> IF file.state = "missing" THEN [state |-> "ok", list |-> <<>>] ELSE file,
     list |-> IF file.state = "ok" THEN file.list ELSE <<>>]

\* how a save can go: open(path, "w") raising leaves the file as it was;
\* a write raising after the open truncated the file leaves a part of the
\* text
SaveOutcomes == {"saved", "open_failed", "write_failed"}

\* the file after save_results(path, recs)
save_results(file, recs, how) ==
    CASE how = "saved" -> [state |-> "ok", list |-> recs]
      [] how = "open_failed" -> file
      [] OTHER -> [state |-> "corrupt", list |-> <<>>]

\* obj.get(k, dflt)
GetOr(obj, k, dflt) == IF k \in DOMAIN obj THEN obj[k] ELSE dflt

\* int(v) of a number: an int stays, a float is truncated
IntOf(v) == IF v.e = 0 THEN v.n ELSE v.n \div (10 ^ v.e)

\* float(v) of a number
FloatOf(v) == IF v.e = 0 THEN Float(v.n * 10, 1) ELSE v

\* round(x, 3); the floats of the model are no ties
Round3(v) == IF v.e <= 3 THEN v ELSE Float(Round(v.n, 10 ^ (v.e - 3)), 3)

\* lines 121-131: int() or float() of None or of a list raises, and the item
\* is passed over
ItemRaises(obj) ==
    \/ Get(obj, "sequence").t # "num"
    \/ GetOr(obj, "lead_score", Num(0)).t # "num"
    \/ GetOr(obj, "completeness_score", Float(0, 1)).t # "num"
    \/ GetOr(obj, "relevance_score", Float(0, 1)).t # "num"

ScoreResult(obj) ==
    [sequence |-> IntOf(Get(obj, "sequence")),
     lead_score |-> IntOf(GetOr(obj, "lead_score", Num(0))),
     completeness_score |-> FloatOf(GetOr(obj, "completeness_score", Float(0, 1))),
     relevance_score |-> FloatOf(GetOr(obj, "relevance_score", Float(0, 1)))]

\* what call_gpt_for_scores returns for the items of the model's text
call_gpt_for_scores(items) ==
    LET good == SelectSeq(items, LAMBDA obj : ~ItemRaises(obj))
    IN  [i \in 1..Len(good) |-> ScoreResult(good[i])]

\* seq in seq_to_score, and seq_to_score[seq]: the last result of a sequence
InSeqToScore(results, n) == \E j \in 1..Len(results) : results[j].sequence = n

SeqToScore(results, n) ==
    results[CHOOSE j \in 1..Len(results) :
                /\ results[j].sequence = n
                /\ \A q \in (j + 1)..Len(results) : results[q].sequence # n]

\* the three setdefault calls (lines 146-148 and 198-200)
SetDefaults(rec) ==
    [k \in (DOMAIN rec) \cup ScoreFields |->
        IF k \in DOMAIN rec THEN rec[k]
        ELSE IF k = "lead_score" THEN Num(0) ELSE Float(0, 1)]

\* the body of the loop of merge_scores
MergeScore(rec, results) ==
    LET seq == Get(rec, "sequence")
    IN  IF seq.t = "num" /\ seq.e = 0 /\ InSeqToScore(results, seq.n)
        THEN LET sc == SeqToScore(results, seq.n)
             IN  Update(rec, [k \in ScoreFields |->
                                CASE k = "lead_score" -> Num(sc.lead_score)
                                  [] k = "completeness_score" -> Round3(sc.completeness_score)
                                  [] OTHER -> Round3(sc.relevance_score)])
        ELSE SetDefaults(rec)

merge_scores(recs, batch_results) ==
    [i \in 1..Len(recs) |-> MergeScore(recs[i], batch_results)]

SequencesOf(list) == {Get(list[i], "sequence") : i \in 1..Len(list)}

\* lines 160-161, 167 and 172-174, on the arguments start and count
start_idx == Max(0, start - 1)

end_idx ==
    IF count > 0 THEN Min(start_idx + Max(0, count), Len(records)) ELSE Len(records)

processed_sequences == SequencesOf(existing_results)

\* the positions (1-based) of companies[idx:min(idx + BatchSize, end_idx)]
batch_slice ==
    [i \in 1..Max(0, Min(idx + BatchSize, end_idx) - idx) |-> idx + i]

to_process ==
    SelectSeq(batch_slice,
              LAMBDA p : Get(records[p], "sequence") \notin processed_sequences)

\* what the model gives for the lead of sequence n
ScoredItem(n) ==
    [k \in {"sequence"} \cup ScoreFields |->
        CASE k = "sequence" -> Num(n)
          [] k = "lead_score" -> Num(40 + (n \div 10))
          [] k = "completeness_score" -> Float(4567, 4)
          [] OTHER -> Num(1)]

\* an item whose lead_score is null
NullScoredItem(n) ==
    [k \in {"sequence", "lead_score"} |-> IF k = "sequence" THEN Num(n) ELSE Null]

\* the answers of the model to a batch of the given sequences: the call
\* raising; a list with an item for each lead, last lead first; a list of
\* an item of null lead_score for the first lead and an item for the last
ScoreAnswers(seqs) ==
    LET n == Len(seqs)
    IN  {[raised |-> TRUE, items |-> <<>>],
         [raised |-> FALSE, items |-> [i \in 1..n |-> ScoredItem(seqs[n + 1 - i].n)]],
         [raised |-> FALSE,
          items |-> <<NullScoredItem(seqs[1].n)>>
                        \o (IF n > 1 THEN <<ScoredItem(seqs[n].n)>> ELSE <<>>)]}

\* one pass of the loop over a non-empty to_process (lines 179-206): the
\* model answers a, the save of line 192 goes s1 and the save of line 203,
\* when the try block raised, goes s2
Iteration(a, s1, s2) ==
    LET ps == to_process
        batch == [i \in 1..Len(ps) |-> records[ps[i]]]
        merged == merge_scores(batch, call_gpt_for_scores(a.items))
        \* lines 189-191
        appended == existing_results \o merged
        \* the call of line 184 or the save of line 192 raised
        failed == a.raised \/ s1 # "saved"
        defaulted == [i \in 1..Len(ps) |->
                        SetDefaults(IF a.raised THEN batch[i] ELSE merged[i])]
        \* lines 197-202
        handled == (IF a.raised THEN existing_results ELSE appended) \o defaulted
        file1 == IF a.raised THEN output ELSE save_results(output, appended, s1)
        final == IF failed THEN defaulted ELSE merged
    IN  [records |-> [p \in 1..Len(records) |->
                        IF \E i \in 1..Len(ps) : ps[i] = p
                        THEN final[CHOOSE i \in 1..Len(ps) : ps[i] = p]
                        ELSE records[p]],
         existing_results |-> IF failed THEN handled ELSE appended,
         output |-> IF failed THEN save_results(file1, handled, s2) ELSE file1,
         raised |-> failed /\ s2 # "saved"]

\* lead 1, scored by an earlier run
ScoredLead == MergeScore(Lead(1), <<ScoreResult(ScoredItem(10))>>)

\* the output file before the first run
OutputFiles ==
    {NoFile,
     [state |-> "ok", list |-> <<>>],
     [state |-> "ok", list |-> <<ScoredLead>>],
     [state |-> "corrupt", list |-> <<>>]}

\* the start and count arguments
Starts == {0, 3}
Counts == {0, 2}

ScorerUntouched ==
    UNCHANGED <<pre, client, batch_size, resp, value, result, df, normalized,
                fetches, tables>>

InitScorer ==
    /\ pc = "scorer_idle"
    /\ output \in OutputFiles
    /\ existing_results = <<>>
    /\ count = 0
    /\ idx = 0 /\ fetches = <<>> /\ tables = <<>> /\ trace = <<>>
    /\ calls = <<>>
    /\ RecordsIdle /\ LlmIdle /\ ParseIdle /\ NormIdle

\* main() of llm_scorer.py, run in a process of its own, runs
\* score_in_batches up to its loop (lines 159-170); trace notes the arguments
\* and the output list the run found, calls the calls of this run
ScorerStart ==
    /\ pc \in {"scorer_idle", "scorer_returned", "scorer_raised"}
    /\ \E s \in Starts, c \in Counts :
        LET found == ensure_output_file(output)
        IN  /\ start' = s
            /\ count' = c
            /\ idx' = Max(0, s - 1)
            /\ records' = load_leads
            /\ output' = found.file
            /\ existing_results' = found.list
            /\ trace' = <<[start |-> s, count |-> c, had |-> found.list]>>
    /\ pc' = "scorer_loop"
    /\ calls' = <<>>
    /\ ScorerUntouched

\* lines 175-177: every lead of the slice is in the output already
ScorerSkip ==
    /\ pc = "scorer_loop"
    /\ idx < end_idx
    /\ to_process = <<>>
    /\ idx' = idx + BatchSize
    /\ UNCHANGED <<pc, records, start, count, output, existing_results, trace, calls>>
    /\ ScorerUntouched

\* the call of the model for the batch, as calls notes it
ScoreCall(a) ==
    [sent |-> {Get(records[to_process[i]], "sequence") : i \in 1..Len(to_process)},
     had |-> SequencesOf(existing_results),
     a |-> a]

\* lines 179-206, the pass ending at line 206
ScorerBatch ==
    /\ pc = "scorer_loop"
    /\ idx < end_idx
    /\ to_process # <<>>
    /\ \E a \in ScoreAnswers([i \in 1..Len(to_process) |-> records[to_process[i]]["sequence"]]),
          s1 \in SaveOutcomes, s2 \in SaveOutcomes :
        LET it == Iteration(a, s1, s2)
        IN  /\ ~it.raised
            /\ records' = it.records
            /\ existing_results' = it.existing_results
            /\ output' = it.output
            /\ calls' = Append(calls, ScoreCall(a))
    /\ idx' = idx + BatchSize
    /\ UNCHANGED <<pc, start, count, trace>>
    /\ ScorerUntouched

\* lines 179-203, the save of the handler raising out of the function
ScorerBatchRaises ==
    /\ pc = "scorer_loop"
    /\ idx < end_idx
    /\ to_process # <<>>
    /\ \E a \in ScoreAnswers([i \in 1..Len(to_process) |-> records[to_process[i]]["sequence"]]),
          s1 \in SaveOutcomes, s2 \in SaveOutcomes :
        LET it == Iteration(a, s1, s2)
        IN  /\ it.raised
            /\ records' = it.records
            /\ existing_results' = it.existing_results
            /\ output' = it.output
            /\ calls' = Append(calls, ScoreCall(a))
    /\ pc' = "scorer_raised"
    /\ UNCHANGED <<idx, start, count, trace>>
    /\ ScorerUntouched

\* line 171 false: the run is over
ScorerReturn ==
    /\ pc = "scorer_loop"
    /\ idx >= end_idx
    /\ pc' = "scorer_returned"
    /\ UNCHANGED <<idx, records, start, count, output, existing_results, trace, calls>>
    /\ ScorerUntouched

NextScorer ==
    \/ ScorerStart
    \/ ScorerSkip
    \/ ScorerBatch
    \/ ScorerBatchRaises
    \/ ScorerReturn

SpecScorer == InitScorer /\ [][NextScorer]_vars

\* the list a reader of the output file gets
OutputList == IF output.state = "ok" THEN output.list ELSE <<>>

IsPrefixOf(a, b) == Len(a) <= Len(b) /\ \A i \in 1..Len(a) : a[i] = b[i]

\* C29 (as claimed): over any runs against the same output file, with the
\* scoring calls and the saves succeeding or failing in any combination, the
\* output list never holds two records of the same sequence, a record whose
\* sequence is in the output is never sent to the model again, and the
\* output a run found is an unchanged prefix of the output after it.
C29_Resumable ==
    /\ \A i, j \in 1..Len(OutputList) :
        i # j => Get(OutputList[i], "sequence") # Get(OutputList[j], "sequence")
    /\ \A c \in 1..Len(calls) : calls[c].sent \cap calls[c].had = {}
    /\ trace # <<>> => IsPrefixOf(trace[Len(trace)].had, OutputList)

\* the scores the claim gives the lead of sequence seq after the call:
\* those of the model's item of that sequence, the defaults without one
ClaimedScores(call, seq) ==
    LET results == call_gpt_for_scores(call.a.items)
    IN  IF ~call.a.raised /\ InSeqToScore(results, seq.n)
        THEN LET sc == SeqToScore(results, seq.n)
             IN  [k \in ScoreFields |->
                    CASE k = "lead_score" -> Num(sc.lead_score)
                      [] k = "completeness_score" -> Round3(sc.completeness_score)
                      [] OTHER -> Round3(sc.relevance_score)]
        ELSE [k \in ScoreFields |-> IF k = "lead_score" THEN Num(0) ELSE Float(0, 1)]

\* the last call that sent the sequence
CallOf(seq) ==
    calls[CHOOSE c \in 1..Len(calls) :
            /\ seq \in calls[c].sent
            /\ \A d \in (c + 1)..Len(calls) : seq \notin calls[d].sent]

\* C30 (as claimed): when a run returns, every lead of the selected range
\* that the output did not hold before is in the output exactly once, with
\* the three scores: those the model returned for its sequence, or the
\* defaults 0 / 0.0 / 0.0 when the model returned none or the call failed.
C30_ScoredOnce ==
    pc = "scorer_returned" =>
        \A p \in (start_idx + 1)..end_idx :
            LET seq == Get(records[p], "sequence")
                at == {i \in 1..Len(OutputList) : Get(OutputList[i], "sequence") = seq}
            IN  seq \notin SequencesOf(trace[Len(trace)].had) =>
                    /\ Cardinality(at) = 1
                    /\ \A i \in at :
                        /\ ScoreFields \subseteq DOMAIN OutputList[i]
                        /\ \E c \in 1..Len(calls) : seq \in calls[c].sent
                        /\ [k \in ScoreFields |-> OutputList[i][k]]
                                = ClaimedScores(CallOf(seq), seq)

====
